---- MODULE Spec2Model ----
(***************************************************************************)
(* Experiment loaders of neuroanalysis: AI_ExperimentLoader and            *)
(* OptoExperimentLoader (src/neuroanalysis/data/loaders).  A loader is     *)
(* constructed over a site directory or a connections file and is then     *)
(* queried; every query reads the files of the site afresh.  The files are *)
(* the environment: they are fixed by Init and never written.              *)
(*                                                                         *)
(* Python values are encoded as follows.                                   *)
(*   None            the empty tuple <<>>; a present value v is <<v>>      *)
(*   a path          a record [dir, name]; the files of site_path that a   *)
(*                   glob pattern matches are numbered in the              *)
(*                   lexicographic order of their names                    *)
(*   a str           the tuple of its characters: 'rt' is <<"r", "t">>     *)
(*   a dict          a tuple of [k, v] records in insertion order          *)
(*   an object       its index in the heap of its class (creation order)   *)
(*   a length        an integer count of micrometres, [v |-> n, e |-> 0],  *)
(*                   which times 1e-6 is [v |-> n, e |-> -6]               *)
(*   an exception    the name of its class, "none" when nothing is raised  *)
(***************************************************************************)
EXTENDS Integers, Sequences, FiniteSets, TLC

\* ------------------------------------------------------------------ bounds
\* Most '*connections*.json' files in one site directory.
MaxCnxFiles == 3
\* Largest 'version' entry of a connections file.
MaxVersion == 2
\* Longest 'temperature' string of the experiment's .index file.
MaxTempLen == 3
\* Most MultiPatch_*.log files in one site directory, and most lines in one.
MaxMpLogs == 2
MaxLogLines == 2
\* Most stimulation points in a connections file.
MaxPoints == 2
\* Most PhotoStimulationLog_*.log files in one site directory.
MaxStimLogs == 2
\* Most files of one kind in a directory whose listing order is varied.
MaxListed == 2
\* Most NWB files in one site directory, and most entries of file_manifest.yml.
MaxNwbFiles == 2
MaxManifest == 2
\* Most points in a markPoints file whose points are checked for duplicates.
MaxMarkPoints == 3
\* Most stimulation points in a connections file that meta_info is merged into.
MaxMetaPoints == 1

\* ------------------------------------------------------------ Python values
None == <<>>
Some(v) == <<v>>
IsNone(o) == o = <<>>
Val(o) == o[1]

Range(s) == {s[i] : i \in 1..Len(s)}

\* Paths.
NonePath == [dir |-> "None", name |-> 0]
NotFound == [dir |-> "not found", name |-> 0]
SitePath == [dir |-> "site_path", name |-> 0]
LoadFilePath == [dir |-> "load_file", name |-> 0]
MetaCnxPath == [dir |-> "connections_dir", name |-> 0]
SiteFile(i) == [dir |-> "site_path", name |-> i]

\* Every ordering of a finite set: what an unsorted directory listing may be.
RECURSIVE Perms(_)
Perms(S) ==
    IF S = {} THEN {<<>>}
    ELSE UNION {{<<x>> \o p : p \in Perms(S \ {x})} : x \in S}

\* ---------------------------------------------------------------- variables
VARIABLES
    pc,           \* "new", "constructed" or "ctor_raised"
    cls,          \* class of the loader: "AI_ExperimentLoader" or "OptoExperimentLoader"
    site_path,    \* self.site_path
    cnx_file_,    \* self._cnx_file
    meta_info_,   \* self._meta_info
    ret,          \* the last call: [op, exc, val]
    fs_cnx,       \* the connections files that exist: path -> its 'version' entry
    fs_temperature, \* 'temperature' of the experiment's .index, None when absent
    fs_rig_operator, \* 'rig_operator' of the experiment's .index, None when absent
    fs_mplogs,    \* the MultiPatch_*.log files of the site, in name order: their lines
    fs_body,      \* what the connections file in use holds besides its version
    fs_nwb,       \* the NWB files of the site: [ext, devices]
    fs_manifest,  \* the entries of file_manifest.yml, None when there is none
    fs_stimlog,   \* the PhotoStimulationLog_*.log files, in name order: their lines
    expt_meta     \* the meta_info dict the caller holds for the experiment

env == <<fs_cnx, fs_temperature, fs_rig_operator, fs_mplogs, fs_body, fs_nwb, fs_manifest,
         fs_stimlog, expt_meta>>
self == <<cls, site_path, cnx_file_, meta_info_>>
vars == <<pc, self, ret, env>>

\* ------------------------------------------------------------- construction
\* A faulty __init__ that forgets the second test; C8 must tell it apart.
AI_init_without_elif(load_file, sp) ==
    IF load_file # NonePath /\ sp # NonePath THEN "Exception" ELSE "none"

\* AI_ExperimentLoader.__init__: exactly one of load_file and site_path.
AI_init(load_file, sp) ==
    IF load_file # NonePath /\ sp # NonePath THEN "Exception"
    ELSE IF load_file = NonePath /\ sp = NonePath THEN "Exception"
    ELSE "none"

\* AI_ExperimentLoader(load_file, site_path)
ConstructAI(load_file, sp) ==
    /\ pc = "new"
    /\ cls' = "AI_ExperimentLoader"
    /\ ret' = [op |-> "__init__", exc |-> AI_init(load_file, sp), val |-> <<load_file, sp>>]
    /\ IF AI_init(load_file, sp) = "none"
       THEN /\ pc' = "constructed"
            /\ site_path' = sp
       ELSE /\ pc' = "ctor_raised"
            /\ site_path' = site_path
    /\ UNCHANGED <<cnx_file_, meta_info_, env>>

\* OptoExperimentLoader(load_file, site_path, meta_info): the base class's
\* __init__ runs first, and the two fields are set only when it returns.
ConstructOpto(load_file, sp, meta_info) ==
    /\ pc = "new"
    /\ cls' = "OptoExperimentLoader"
    /\ ret' = [op |-> "__init__", exc |-> AI_init(load_file, sp), val |-> <<load_file, sp>>]
    /\ IF AI_init(load_file, sp) = "none"
       THEN /\ pc' = "constructed"
            /\ site_path' = sp
            /\ cnx_file_' = load_file
            /\ meta_info_' = meta_info
       ELSE /\ pc' = "ctor_raised"
            /\ UNCHANGED <<site_path, cnx_file_, meta_info_>>
    /\ UNCHANGED env

\* ------------------------------------------------------ the connections file
\* glob.glob(os.path.join(site_path, '*connections*.json')): the matching
\* files of the site directory.
CnxGlob == {f \in DOMAIN fs_cnx : f.dir = "site_path"}

\* sorted(): insertion of each element before the first larger name.
RECURSIVE InsertSorted(_, _)
InsertSorted(s, f) ==
    IF s = <<>> THEN <<f>>
    ELSE IF f.name < Head(s).name THEN <<f>> \o s
    ELSE <<Head(s)>> \o InsertSorted(Tail(s), f)

RECURSIVE sorted(_)
sorted(listing) ==
    IF listing = <<>> THEN <<>>
    ELSE InsertSorted(sorted(Tail(listing)), Head(listing))

\* A faulty get_cnx_file_version whose default is 1; C1 must tell it apart.
get_cnx_file_version_default_1(f) == IF IsNone(fs_cnx[f]) THEN 1 ELSE Val(fs_cnx[f])

\* get_cnx_file_version: exp_json.get('version', 0)
get_cnx_file_version(f) == IF IsNone(fs_cnx[f]) THEN 0 ELSE Val(fs_cnx[f])

\* A faulty loop that replaces the candidate on an equal version as well, so
\* that the last of several files wins; C3 must tell it apart.
RECURSIVE HighestVersion_last_wins(_, _, _, _)
HighestVersion_last_wins(cnx_files, i, max_version, cnx_file) ==
    IF i > Len(cnx_files) THEN [max_version |-> max_version, cnx_file |-> cnx_file]
    ELSE IF get_cnx_file_version(cnx_files[i]) >= max_version
    THEN HighestVersion_last_wins(cnx_files, i + 1, get_cnx_file_version(cnx_files[i]),
                                  <<cnx_files[i]>>)
    ELSE HighestVersion_last_wins(cnx_files, i + 1, max_version, cnx_file)

\* The loop of find_connections_file over the candidate files, from file i on,
\* with the running max_version and cnx_file list.
RECURSIVE HighestVersion(_, _, _, _)
HighestVersion(cnx_files, i, max_version, cnx_file) ==
    IF i > Len(cnx_files) THEN [max_version |-> max_version, cnx_file |-> cnx_file]
    ELSE LET f == cnx_files[i]
             version == get_cnx_file_version(f)
         IN IF version > max_version
            THEN HighestVersion(cnx_files, i + 1, version, <<f>>)
            ELSE IF version = max_version
            THEN HighestVersion(cnx_files, i + 1, max_version, Append(cnx_file, f))
            ELSE HighestVersion(cnx_files, i + 1, max_version, cnx_file)

\* find_connections_file on a loader with the given site_path and _meta_info,
\* when glob lists the matching files as `listing`: [exc, val].
find_connections_file(sp, meta_info, listing) ==
    IF sp = NonePath
    THEN [exc |-> "TypeError", val |-> NonePath]       \* os.path.join(None, ...)
    ELSE
    LET highest(r) ==
            IF Len(r.cnx_file) = 1
            THEN [exc |-> "none", val |-> r.cnx_file[1]]
            ELSE [exc |-> "Exception", val |-> NonePath]
        among(cnx_files) ==
            IF Len(cnx_files) = 1 THEN [exc |-> "none", val |-> cnx_files[1]]
            ELSE IF Len(cnx_files) = 0
            THEN IF IsNone(meta_info)
                 THEN [exc |-> "TypeError", val |-> NonePath]  \* None['connections_dir']
                 ELSE IF MetaCnxPath \in DOMAIN fs_cnx
                      THEN [exc |-> "none", val |-> MetaCnxPath]
                      ELSE [exc |-> "none", val |-> NotFound]
            ELSE highest(HighestVersion(cnx_files, 1, 0, <<>>))
    IN among(sorted(listing))

\* The cnx_file property: [exc, val, cache], cache being _cnx_file afterwards.
cnx_file(listing) ==
    LET found(r) ==
            IF r.exc = "none"
            THEN [exc |-> "none", val |-> r.val, cache |-> r.val]
            ELSE [exc |-> r.exc, val |-> NonePath, cache |-> cnx_file_]
    IN IF cnx_file_ = NonePath
       THEN found(find_connections_file(site_path, meta_info_, listing))
       ELSE [exc |-> "none", val |-> cnx_file_, cache |-> cnx_file_]

\* A direct call of loader.find_connections_file().
CallFindConnectionsFile ==
    /\ pc = "constructed"
    /\ cls = "OptoExperimentLoader"
    /\ \E listing \in Perms(CnxGlob) :
          \E r \in {find_connections_file(site_path, meta_info_, listing)} :
             ret' = [op |-> "find_connections_file", exc |-> r.exc, val |-> r.val]
    /\ UNCHANGED <<pc, self, env>>

\* A read of loader.cnx_file.
ReadCnxFile ==
    /\ pc = "constructed"
    /\ cls = "OptoExperimentLoader"
    /\ \E listing \in Perms(CnxGlob) :
          \E r \in {cnx_file(listing)} :
             /\ ret' = [op |-> "cnx_file", exc |-> r.exc, val |-> r.val]
             /\ cnx_file_' = r.cache
    /\ UNCHANGED <<pc, cls, site_path, meta_info_, env>>

\* -------------------------------------------------------- target temperature
\* The attributes a loader has: the instance fields set by __init__ and the
\* methods and properties of its classes.
AI_attributes ==
    {"site_path", "load", "verify", "get_info", "get_ext_id", "get_ephys_data",
     "get_surface_depth", "get_slice", "get_datetime", "get_target_region",
     "get_target_temperature", "get_site_info", "get_slice_info", "get_expt_info",
     "get_multipatch_log", "get_ephys_file", "get_mosaic_file", "get_cluster_id",
     "get_specimen_name", "get_rig_operator", "get_rig_name", "get_project_name",
     "original_path", "relative_path", "server_path"}

Opto_attributes ==
    AI_attributes \cup
    {"_cnx_file", "_meta_info", "cnx_file", "get_last_modification_time",
     "get_electrodes_from_dataset", "process_meta_info", "label_cell",
     "load_markPoints_connection_file", "load_mosaiceditor_connection_file",
     "load_without_connection_file", "create_pairs", "find_connections_file",
     "get_cnx_file_version", "load_stimulation_log", "get_points_from_photostim_log"}

attributes(c) == IF c = "OptoExperimentLoader" THEN Opto_attributes ELSE AI_attributes

\* str.lower()
UpperCase == <<"A", "B", "C", "D", "E", "F", "G", "H", "I", "J", "K", "L", "M",
               "N", "O", "P", "Q", "R", "S", "T", "U", "V", "W", "X", "Y", "Z">>
LowerCase == <<"a", "b", "c", "d", "e", "f", "g", "h", "i", "j", "k", "l", "m",
               "n", "o", "p", "q", "r", "s", "t", "u", "v", "w", "x", "y", "z">>
lower(s) ==
    [i \in 1..Len(s) |->
        IF \E k \in 1..26 : UpperCase[k] = s[i]
        THEN LowerCase[CHOOSE k \in 1..26 : UpperCase[k] = s[i]]
        ELSE s[i]]

\* str.rstrip(chars): drop the trailing characters that are in chars.
RECURSIVE rstrip(_, _)
rstrip(s, chars) ==
    IF s # <<>> /\ s[Len(s)] \in chars THEN rstrip(SubSeq(s, 1, Len(s) - 1), chars) ELSE s

RECURSIVE lstrip(_, _)
lstrip(s, chars) ==
    IF s # <<>> /\ Head(s) \in chars THEN lstrip(Tail(s), chars) ELSE s

\* str.strip(): whitespace off both ends.
strip(s) == rstrip(lstrip(s, {" "}), {" "})

Digits == {"0", "1", "2", "3", "4", "5", "6", "7", "8", "9"}
DigitValue(c) ==
    CASE c = "0" -> 0 [] c = "1" -> 1 [] c = "2" -> 2 [] c = "3" -> 3 [] c = "4" -> 4
      [] c = "5" -> 5 [] c = "6" -> 6 [] c = "7" -> 7 [] c = "8" -> 8 [] c = "9" -> 9

\* The digits of s, as one integer.
RECURSIVE Mantissa(_, _)
Mantissa(s, acc) ==
    IF s = <<>> THEN acc
    ELSE IF Head(s) = "." THEN Mantissa(Tail(s), acc)
    ELSE Mantissa(Tail(s), 10 * acc + DigitValue(Head(s)))

\* A number is [v, e], the value v * 10^e, with no trailing zero in v when
\* e is negative, so that equal values are equal records.
RECURSIVE Number(_, _)
Number(v, e) ==
    IF e < 0 /\ v % 10 = 0 THEN Number(v \div 10, e + 1) ELSE [v |-> v, e |-> e]

\* float(s) for a string of letters, blanks, digits and the point: s parses
\* when it is digits with at most one point and at least one digit, blanks
\* around it allowed.
floatParses(s) ==
    LET t == strip(s) IN
    /\ \A i \in 1..Len(t) : t[i] \in Digits \cup {"."}
    /\ \E i \in 1..Len(t) : t[i] \in Digits
    /\ Cardinality({i \in 1..Len(t) : t[i] = "."}) <= 1

float(s) ==
    LET t == strip(s)
        dot == {i \in 1..Len(t) : t[i] = "."}
    IN Number(Mantissa(t, 0), IF dot = {} THEN 0 ELSE (CHOOSE i \in dot : TRUE) - Len(t))

\* x * 1e-6
TimesMicro(x) == Number(x.v, x.e - 6)

RoomTemperature == Number(22, 0)     \* 22.0

\* get_expt_info().get('temperature'): {} without a site_path.
expt_info_temperature == IF site_path = NonePath THEN None ELSE fs_temperature

\* AI_ExperimentLoader.get_target_temperature: [exc, val].  The raise statement
\* formats its message from self.expt_info first.
get_target_temperature ==
    LET temp == expt_info_temperature IN
    IF IsNone(temp) THEN [exc |-> "none", val |-> None]
    ELSE LET t == strip(rstrip(lower(Val(temp)), {" ", "c"})) IN
         IF t = <<"r", "t">> THEN [exc |-> "none", val |-> Some(RoomTemperature)]
         ELSE IF t = <<>> THEN [exc |-> "none", val |-> None]
         ELSE IF floatParses(t) THEN [exc |-> "none", val |-> Some(float(t))]
         ELSE IF "expt_info" \in attributes(cls)
              THEN [exc |-> "ValueError", val |-> None]
              ELSE [exc |-> "AttributeError", val |-> None]

CallGetTargetTemperature ==
    /\ pc = "constructed"
    /\ \E r \in {get_target_temperature} :
          ret' = [op |-> "get_target_temperature", exc |-> r.exc, val |-> r.val]
    /\ UNCHANGED <<pc, self, env>>

\* -------------------------------------------------------------- surface depth
\* The names of the multipatch logs of the site directory.
mp_log_files == DOMAIN fs_mplogs

\* [l for l in open(mplog).readlines() if 'surface_depth_changed' in l]
surface_lines(mplog) ==
    SelectSeq(fs_mplogs[mplog], LAMBDA l : l.surface_depth_changed)

\* AI_ExperimentLoader.get_multipatch_log: [exc, val], val a file or None.
get_multipatch_log ==
    IF site_path = NonePath THEN [exc |-> "none", val |-> None]
    ELSE LET files == mp_log_files IN
         IF Cardinality(files) = 0 THEN [exc |-> "TypeError", val |-> None]
         ELSE IF Cardinality(files) > 1 THEN [exc |-> "TypeError", val |-> None]
         ELSE [exc |-> "none", val |-> Some(CHOOSE f \in files : TRUE)]

\* A faulty reading that takes lines[0]; C10 must tell it apart.
first_surface_depth(lines) == Some(lines[1].surface_depth)

\* json.loads(line)['surface_depth'] of the last line of a non-empty list.
last_surface_depth(lines) == Some(lines[Len(lines)].surface_depth)

\* AI_ExperimentLoader.get_surface_depth
AI_get_surface_depth ==
    LET r == get_multipatch_log IN
    IF r.exc = "TypeError" THEN None
    ELSE IF IsNone(r.val) THEN None
    ELSE LET lines == surface_lines(Val(r.val)) IN
         IF Len(lines) = 0 THEN None ELSE last_surface_depth(lines)

\* The lines.extend loop of OptoExperimentLoader.get_surface_depth.
RECURSIVE extend_lines(_, _)
extend_lines(mp_files, lines) ==
    IF mp_files = <<>> THEN lines
    ELSE extend_lines(Tail(mp_files), lines \o surface_lines(Head(mp_files)))

\* sorted() of a listing of log names, which are numbers in name order.
RECURSIVE InsertName(_, _)
InsertName(s, f) ==
    IF s = <<>> THEN <<f>>
    ELSE IF f < Head(s) THEN <<f>> \o s
    ELSE <<Head(s)>> \o InsertName(Tail(s), f)

RECURSIVE sorted_names(_)
sorted_names(listing) ==
    IF listing = <<>> THEN <<>>
    ELSE InsertName(sorted_names(Tail(listing)), Head(listing))

\* OptoExperimentLoader.get_surface_depth when glob lists the logs as `listing`.
Opto_get_surface_depth(listing) ==
    IF site_path = NonePath THEN None
    ELSE LET mp_files == sorted_names(listing)
             lines == extend_lines(mp_files, <<>>)
         IN IF Len(lines) = 0 THEN None ELSE last_surface_depth(lines)

CallGetSurfaceDepth ==
    /\ pc = "constructed"
    /\ \E listing \in Perms(mp_log_files) :
          ret' = [op |-> "get_surface_depth", exc |-> "none",
                  val |-> IF cls = "OptoExperimentLoader"
                          THEN Opto_get_surface_depth(listing)
                          ELSE AI_get_surface_depth]
    /\ UNCHANGED <<pc, self, env>>

\* ------------------------------------------------------------------ strings
electrode == <<"e", "l", "e", "c", "t", "r", "o", "d", "e">>
Point_ == <<"P", "o", "i", "n", "t", " ">>
DigitChar(n) ==
    CASE n = 0 -> "0" [] n = 1 -> "1" [] n = 2 -> "2" [] n = 3 -> "3" [] n = 4 -> "4"
      [] n = 5 -> "5" [] n = 6 -> "6" [] n = 7 -> "7" [] n = 8 -> "8" [] n = 9 -> "9"

\* str(n) and '%i' % n of a natural number
RECURSIVE str(_)
str(n) == IF n < 10 THEN <<DigitChar(n)>> ELSE str(n \div 10) \o <<DigitChar(n % 10)>>

\* 'electrode_%i' % dev_id
electrode_name(dev_id) == electrode \o <<"_">> \o str(dev_id)

\* s.startswith(prefix)
startswith(s, prefix) == Len(s) >= Len(prefix) /\ SubSeq(s, 1, Len(prefix)) = prefix

\* s[-1], a string of one character (s is never empty where it is used)
last_char(s) == <<s[Len(s)]>>

\* int(s) of a string: blanks around the digits are allowed.
intParses(s) == LET t == strip(s) IN t # <<>> /\ \A i \in 1..Len(t) : t[i] \in Digits
int(s) == Mantissa(strip(s), 0)

\* s.strip().strip('L').strip('l')
strip_layer(s) ==
    LET a == strip(s)
        b == rstrip(lstrip(a, {"L"}), {"L"})
    IN rstrip(lstrip(b, {"l"}), {"l"})

\* -------------------------------------------------------------------- dicts
Keys(d) == [i \in 1..Len(d) |-> d[i].k]
Has(d, k) == \E i \in 1..Len(d) : d[i].k = k
Get(d, k) == d[CHOOSE i \in 1..Len(d) : d[i].k = k].v
\* d[k] = v: a new key goes last, an old key keeps its place.
Set(d, k, v) ==
    IF Has(d, k)
    THEN [i \in 1..Len(d) |-> IF d[i].k = k THEN [k |-> k, v |-> v] ELSE d[i]]
    ELSE Append(d, [k |-> k, v |-> v])
\* d.pop(k) of a key that is there
Pop(d, k) == SelectSeq(d, LAMBDA kv : kv.k # k)
\* dict.update(other)
RECURSIVE Update(_, _)
Update(d, other) ==
    IF other = <<>> THEN d
    ELSE Update(Set(d, Head(other).k, Head(other).v), Tail(other))

\* ------------------------------------------------------------- the NWB file
\* AI_ExperimentLoader.get_ephys_file: [exc, val], val a file of fs_nwb or
\* None.  With several NWB files, the manifest branch reads self.path and
\* the raise statement formats its message from self.expt.
nwb_glob(ext) == {i \in 1..Len(fs_nwb) : fs_nwb[i].ext = ext}

get_ephys_file ==
    IF site_path = NonePath THEN [exc |-> "none", val |-> None]
    ELSE
    LET lower_case == nwb_glob("nwb")
        files == IF Cardinality(lower_case) = 0 THEN nwb_glob("NWB") ELSE lower_case
        mies == IF IsNone(fs_manifest) THEN {}
                ELSE {i \in 1..Len(Val(fs_manifest)) :
                        Val(fs_manifest)[i].category = "MIES physiology"}
    IN
    IF Cardinality(files) = 0 THEN [exc |-> "none", val |-> None]
    ELSE IF Cardinality(files) > 1
    THEN IF mies # {}
         THEN IF "path" \in attributes(cls)
              THEN [exc |-> "none",
                    val |-> Some(Val(fs_manifest)[CHOOSE i \in mies : \A j \in mies : i <= j].path)]
              ELSE [exc |-> "AttributeError", val |-> None]
         ELSE IF "expt" \in attributes(cls)
              THEN [exc |-> "Exception", val |-> None]
              ELSE [exc |-> "AttributeError", val |-> None]
    ELSE [exc |-> "none", val |-> Some(CHOOSE f \in files : TRUE)]

\* loader.get_ephys_file()
CallGetEphysFile ==
    /\ pc = "constructed"
    /\ \E r \in {get_ephys_file} :
          ret' = [op |-> "get_ephys_file", exc |-> r.exc, val |-> r.val]
    /\ UNCHANGED <<pc, self, env>>

\* OptoExperimentLoader.get_ephys_data: the devices of the dataset, or None.
get_ephys_data ==
    LET dataset(nwb) ==
            IF nwb.exc # "none" THEN [exc |-> nwb.exc, val |-> None]
            ELSE IF IsNone(nwb.val) THEN [exc |-> "none", val |-> None]
            ELSE [exc |-> "none", val |-> Some(fs_nwb[Val(nwb.val)].devices)]
    IN dataset(get_ephys_file)

\* OptoExperimentLoader.get_electrodes_from_dataset: the devices that are ints.
get_electrodes_from_dataset ==
    LET electrodes(dataset) ==
            IF dataset.exc # "none" THEN [exc |-> dataset.exc, val |-> None]
            ELSE IF IsNone(dataset.val) THEN [exc |-> "none", val |-> None]
            ELSE LET ints == SelectSeq(Val(dataset.val), LAMBDA x : x.type = "int")
                 IN [exc |-> "none", val |-> Some([i \in 1..Len(ints) |-> ints[i].id])]
    IN electrodes(get_ephys_data)

\* A faulty choice of names that takes the headstages of the connections file
\* although there is a recording; C13 must tell it apart.
electrode_names_from_file(nwb_electrodes) == Keys(fs_body.Headstages)

\* ['electrode_%i' % dev_id for dev_id in nwb_electrodes]
electrode_names(nwb_electrodes) ==
    [i \in 1..Len(nwb_electrodes) |-> electrode_name(nwb_electrodes[i])]

\* ---------------------------------------------------------- cells, electrodes
\* Cell(expt, cell_id, electrode): a new Cell, nothing else known about it.
Cell(cell_id, elec) ==
    [cell_id |-> cell_id, electrode |-> elec,
     has_readout |-> FALSE, has_stimulation |-> FALSE,
     position |-> None, stim_point_ext_id |-> None, stim_point_info |-> None,
     initial_call |-> None, target_layer |-> None, percent_depth |-> None,
     distance_to_pia |-> None, distance_to_wm |-> None,
     cre_type |-> None, labels |-> {}]

\* Electrode(name, start_time=None, stop_time=None, device_id=name[-1])
Electrode(name, device_id) ==
    [electrode_id |-> name, device_id |-> device_id, cell |-> None,
     internal_solution |-> None]

\* What a loading function has built so far: the two OrderedDicts, which map
\* an id to an object, and the objects.
EmptyLoad ==
    [exc |-> "none", electrodes |-> <<>>, cells |-> <<>>, cell_heap |-> <<>>,
     elec_heap |-> <<>>]

Raise(L, exc) == [L EXCEPT !.exc = exc]

\* elec = Electrode(name, ...); electrodes[name] = elec;
\* cell = Cell(expt, name, elec); elec.cell = cell; has_readout = True;
\* has_stimulation = True; cells[cell.cell_id] = cell
patched_cell(L, name) ==
    LET e == Len(L.elec_heap) + 1
        c == Len(L.cell_heap) + 1
        elec == [Electrode(name, last_char(name)) EXCEPT !.cell = Some(c)]
        cell == [Cell(name, Some(e)) EXCEPT !.has_readout = TRUE, !.has_stimulation = TRUE]
    IN [L EXCEPT !.elec_heap = Append(@, elec),
                 !.electrodes = Set(@, name, e),
                 !.cell_heap = Append(@, cell),
                 !.cells = Set(@, cell.cell_id, c)]

\* cell = Cell(expt, name, None); position; has_readout = False;
\* has_stimulation = True; info.update(stim_point_ext_id=name);
\* cells[cell.cell_id] = cell
stim_cell(L, name, position) ==
    LET c == Len(L.cell_heap) + 1
        cell == [Cell(name, None) EXCEPT !.position = Some(position),
                                         !.has_stimulation = TRUE,
                                         !.stim_point_ext_id = Some(name)]
    IN [L EXCEPT !.cell_heap = Append(@, cell), !.cells = Set(@, cell.cell_id, c)]

\* --------------------------------------------------------------- arithmetic
RECURSIVE Pow10(_)
Pow10(n) == IF n = 0 THEN 1 ELSE 10 * Pow10(n - 1)
Min(a, b) == IF a < b THEN a ELSE b
\* The integer x / 10^e, for e <= x.e
Aligned(x, e) == x.v * Pow10(x.e - e)
\* (x * 1e-6, y * 1e-6, z * 1e-6)
TimesMicro3(pos) == <<TimesMicro(pos[1]), TimesMicro(pos[2]), TimesMicro(pos[3])>>

\* sqrt(x_dif**2 + y_dif**2 + z_dif**2) < distance, decided on the squares
closer_than(pos1, pos2, distance) ==
    LET e == Min(distance.e, Min(Min(Min(pos1[1].e, pos1[2].e), pos1[3].e),
                                 Min(Min(pos2[1].e, pos2[2].e), pos2[3].e)))
        x_dif == Aligned(pos2[1], e) - Aligned(pos1[1], e)
        y_dif == Aligned(pos2[2], e) - Aligned(pos1[2], e)
        z_dif == Aligned(pos2[3], e) - Aligned(pos1[3], e)
    IN x_dif * x_dif + y_dif * y_dif + z_dif * z_dif < Aligned(distance, e) * Aligned(distance, e)

\* a / b of two numbers, as the fraction [num, den]
Divide(a, b) ==
    LET e == Min(a.e, b.e) IN [num |-> Aligned(a, e), den |-> Aligned(b, e)]
Add(a, b) ==
    LET e == Min(a.e, b.e) IN Number(Aligned(a, e) + Aligned(b, e), e)
IsZero(a) == a.v = 0

\* ------------------------------------------- load_markPoints_connection_file
\* points[point] = {'pos': pos} for the MarkPoints of every TSeries, in order.
RECURSIVE mark_points(_, _)
mark_points(items, points) ==
    IF items = <<>> THEN points
    ELSE mark_points(Tail(items),
                     Set(points, Head(items).name,
                         [pos |-> TimesMicro3(Head(items).pos), calls |-> <<>>]))

\* The loop over the electrode names: an electrode and a patched cell each,
\* and, when the file has the headstage, its position and its call on every
\* point.  L carries the points as well.
RECURSIVE mark_headstages(_, _)
mark_headstages(names, L) ==
    IF names = <<>> \/ L.exc # "none" THEN L
    ELSE
    LET headstage == Head(names)
        L1 == patched_cell(L, headstage)
        c == Len(L1.cell_heap)
    IN
    IF ~Has(fs_body.Headstages, headstage) THEN mark_headstages(Tail(names), L1)
    ELSE
    LET data == Get(fs_body.Headstages, headstage)
        L2 == [L1 EXCEPT !.cell_heap[c].position = Some(TimesMicro3(data.pos))]
    IN
    IF \E i \in 1..Len(L.points) : ~Has(data.Connections, L.points[i].k)
    THEN Raise(L2, "KeyError")
    ELSE mark_headstages(Tail(names),
            [L2 EXCEPT !.points =
                [i \in 1..Len(L.points) |->
                    [k |-> L.points[i].k,
                     v |-> [pos |-> L.points[i].v.pos,
                            calls |-> Set(L.points[i].v.calls, headstage,
                                          Get(data.Connections, L.points[i].k))]]]])

distance == Number(10, -6)     \* 10e-6

\* points[p1][hs] != points[p2][hs] can be evaluated
calls_known(points, i, j, hs) == Has(points[i].v.calls, hs) /\ Has(points[j].v.calls, hs)

\* A faulty test that measures in the plane only (xy_dif); C12 must tell it
\* apart.
overlapping_in_the_plane(points, i, j) ==
    closer_than(<<points[i].v.pos[1], points[i].v.pos[2], Number(0, 0)>>,
                <<points[j].v.pos[1], points[j].v.pos[2], Number(0, 0)>>, distance)

\* Two points closer than `distance`
overlapping(points, i, j) == closer_than(points[i].v.pos, points[j].v.pos, distance)

\* same, after the loop over HS_keys (every call is known)
same_calls(points, i, j, HS_keys) ==
    \A h \in 1..Len(HS_keys) :
        Get(points[i].v.calls, HS_keys[h]) = Get(points[j].v.calls, HS_keys[h])

\* The positions in `points` of the points put on the skip list.
skipped(points, HS_keys) ==
    {i \in 1..Len(points) :
        \E j \in (i + 1)..Len(points) :
            overlapping(points, i, j) /\ same_calls(points, i, j, HS_keys)}

\* The cells of the points that were not skipped.
RECURSIVE mark_cells(_, _, _, _)
mark_cells(points, i, skip, L) ==
    IF i > Len(points) THEN L
    ELSE IF i \in skip THEN mark_cells(points, i + 1, skip, L)
    ELSE mark_cells(points, i + 1, skip, stim_cell(L, points[i].k, points[i].v.pos))

load_markPoints_connection_file ==
    LET HS_keys == SelectSeq(Keys(fs_body.Headstages), LAMBDA key : startswith(key, electrode))
        \* the check for duplicated points and the loop that makes the cells
        deduplicated(L) ==
            IF L.exc # "none" THEN Raise(EmptyLoad, L.exc)
            ELSE IF \E i \in 1..Len(L.points) : \E j \in (i + 1)..Len(L.points) :
                       /\ overlapping(L.points, i, j)
                       /\ \E h \in 1..Len(HS_keys) : ~calls_known(L.points, i, j, HS_keys[h])
            THEN Raise(EmptyLoad, "KeyError")
            ELSE mark_cells(L.points, 1, skipped(L.points, HS_keys),
                            [exc |-> "none", electrodes |-> L.electrodes, cells |-> L.cells,
                             cell_heap |-> L.cell_heap, elec_heap |-> L.elec_heap])
        \* the loop over the headstages
        headstages(nwb_electrodes) ==
            IF nwb_electrodes.exc # "none" THEN Raise(EmptyLoad, nwb_electrodes.exc)
            ELSE deduplicated(
                    mark_headstages(IF ~IsNone(nwb_electrodes.val)
                                    THEN electrode_names(Val(nwb_electrodes.val))
                                    ELSE HS_keys,
                                    [exc |-> "none", electrodes |-> <<>>, cells |-> <<>>,
                                     cell_heap |-> <<>>, elec_heap |-> <<>>,
                                     points |-> mark_points(fs_body.points, <<>>)]))
    IN headstages(get_electrodes_from_dataset)

\* ----------------------------------------- load_mosaiceditor_connection_file
\* target_layer.strip().strip('L').strip('l') unless it is None
stripped_layer(target_layer) ==
    IF IsNone(target_layer) THEN None ELSE Some(strip_layer(Val(target_layer)))

\* The cells of the StimulationPoints that are on a cell.
RECURSIVE mosaic_points(_, _)
mosaic_points(items, L) ==
    IF items = <<>> THEN L
    ELSE LET data == Head(items) IN
         IF data.onCell
         THEN LET L1 == stim_cell(L, data.name, data.pos)
                  c == Len(L1.cell_heap)
              IN mosaic_points(Tail(items),
                    [L1 EXCEPT !.cell_heap[c].target_layer = stripped_layer(data.target_layer),
                               !.cell_heap[c].percent_depth = data.percent_depth,
                               !.cell_heap[c].distance_to_pia = data.distance_to_pia,
                               !.cell_heap[c].distance_to_wm = data.distance_to_wm])
         ELSE mosaic_points(Tail(items), L)

\* The electrodes and the cells of the recorded cells.
RECURSIVE mosaic_headstages(_, _)
mosaic_headstages(names, L) ==
    IF names = <<>> THEN L
    ELSE
    LET name == Head(names)
        L1 == patched_cell(L, name)
        c == Len(L1.cell_heap)
    IN
    IF ~Has(fs_body.Headstages, name) THEN mosaic_headstages(Tail(names), L1)
    ELSE LET data == Get(fs_body.Headstages, name) IN
         mosaic_headstages(Tail(names),
            [L1 EXCEPT !.cell_heap[c].position = Some(data.pos),
                       !.cell_heap[c].target_layer = stripped_layer(data.target_layer),
                       !.cell_heap[c].percent_depth = data.percent_depth,
                       !.cell_heap[c].distance_to_pia = data.distance_to_pia,
                       !.cell_heap[c].distance_to_wm = data.distance_to_wm])

\* The StimulationPoints object of the file: a later entry of the same name
\* replaces the earlier one.
RECURSIVE stimulation_points(_, _)
stimulation_points(items, d) ==
    IF items = <<>> THEN d
    ELSE stimulation_points(Tail(items), Set(d, Head(items).name, Head(items)))

load_mosaiceditor_connection_file ==
    LET values(StimulationPoints) ==
            [i \in 1..Len(StimulationPoints) |-> StimulationPoints[i].v]
        headstages(L, nwb_electrodes) ==
            IF nwb_electrodes.exc # "none" THEN Raise(EmptyLoad, nwb_electrodes.exc)
            ELSE mosaic_headstages(IF ~IsNone(nwb_electrodes.val)
                                   THEN electrode_names(Val(nwb_electrodes.val))
                                   ELSE Keys(fs_body.Headstages),
                                   L)
    IN headstages(mosaic_points(values(stimulation_points(fs_body.points, <<>>)), EmptyLoad),
                  get_electrodes_from_dataset)

\* --------------------------------------------------- the photostimulation log
\* load_stimulation_log when glob lists the logs as `listing`: every line of
\* every log, in sorted order, merged into one dict.
RECURSIVE update_lines(_, _)
update_lines(lines, log) ==
    IF lines = <<>> THEN log ELSE update_lines(Tail(lines), Update(log, Head(lines)))

RECURSIVE update_logs(_, _)
update_logs(log_files, log) ==
    IF log_files = <<>> THEN log
    ELSE update_logs(Tail(log_files), update_lines(fs_stimlog[Head(log_files)], log))

\* A faulty load_stimulation_log that reads the logs as glob lists them; C4
\* must tell it apart.
load_stimulation_log_unsorted(listing) == update_logs(listing, <<>>)

load_stimulation_log(listing) == update_logs(sorted_names(listing), <<>>)

\* The loop of get_points_from_photostim_log over the entries of the log.
RECURSIVE log_points(_, _, _)
log_points(stims, version, points) ==
    IF stims = <<>> THEN points
    ELSE LET stim == Head(stims).v
             pt_name == IF version >= 2 THEN stim.name ELSE Point_ \o str(stim.stimulationPoint)
             onCell == IF version >= 2 THEN stim.onCell ELSE TRUE
         IN log_points(Tail(stims), version,
                       Set(points, pt_name,
                           [name |-> pt_name, position |-> stim.pos, onCell |-> onCell]))

get_points_from_photostim_log(listing) ==
    LET points(log) ==
            log_points(Pop(log, "version"),
                       IF Has(log, "version") THEN Get(log, "version").version ELSE -1,
                       <<>>)
    IN points(load_stimulation_log(listing))

\* ---------------------------------------------- load_without_connection_file
\* A faulty loop that makes a cell of every point, on a cell or not; C6 must
\* tell it apart.
RECURSIVE log_cells_of_every_point(_, _)
log_cells_of_every_point(items, L) ==
    IF items = <<>> THEN L
    ELSE log_cells_of_every_point(Tail(items),
                                  stim_cell(L, Head(items).v.name, Head(items).v.position))

\* The loop over stim_log_points.items().
RECURSIVE log_cells(_, _)
log_cells(items, L) ==
    IF items = <<>> THEN L
    ELSE LET data == Head(items).v IN
         IF data.onCell THEN log_cells(Tail(items), stim_cell(L, data.name, data.position))
         ELSE log_cells(Tail(items), L)

RECURSIVE nwb_cells(_, _)
nwb_cells(names, L) ==
    IF names = <<>> THEN L ELSE nwb_cells(Tail(names), patched_cell(L, Head(names)))

load_without_connection_file(listing) ==
    LET patched(L, nwb_electrodes) ==
            IF nwb_electrodes.exc # "none" THEN Raise(EmptyLoad, nwb_electrodes.exc)
            ELSE IF IsNone(nwb_electrodes.val) THEN Raise(EmptyLoad, "Exception")
            ELSE nwb_cells(electrode_names(Val(nwb_electrodes.val)), L)
    IN IF site_path = NonePath
       THEN Raise(EmptyLoad, "TypeError")          \* os.path.join(None, ...)
       ELSE patched(log_cells(get_points_from_photostim_log(listing), EmptyLoad),
                    get_electrodes_from_dataset)

\* --------------------------------------------------------- process_meta_info
positive == <<"p", "o", "s", "i", "t", "i", "v", "e">>
ai167 == <<"a", "i", "1", "6", "7">>
ai136 == <<"a", "i", "1", "3", "6">>
tdTomato == <<"t", "d", "T", "o", "m", "a", "t", "o">>
EYFP == <<"E", "Y", "F", "P">>
AF488 == <<"A", "F", "4", "8", "8">>
AF594 == <<"A", "F", "5", "9", "4">>

\* meta_info.get(key, '').lower()
get_lower(o) == IF IsNone(o) THEN <<>> ELSE lower(Val(o))

\* label_cell(cell, preEffector, positive): the labels of the cell afterwards.
label_cell(cell, preEffector, is_positive) ==
    LET genetic == IF ~is_positive THEN {}
                   ELSE {preEffector} \cup
                        (IF preEffector = ai167 THEN {tdTomato}
                         ELSE IF preEffector = ai136 THEN {EYFP} ELSE {})
        dyes == IF IsNone(cell.electrode) THEN {}
                ELSE IF preEffector = ai167 THEN {AF488}
                ELSE IF preEffector = ai136 THEN {AF594} ELSE {}
    IN cell.labels \cup genetic \cup dyes

\* meta_info.get('HS%s_<field>' % n)
HS(meta_info, n) ==
    IF Has(meta_info.HS, n) THEN Get(meta_info.HS, n)
    ELSE [class |-> None, layer |-> None, reporter |-> None]

\* try: x = float(s) * 1e-6 / except ValueError: if s != '': raise --
\* [exc, val], val being the new value of x, which was `old`.
micrometres(s, old) ==
    IF floatParses(s) THEN [exc |-> "none", val |-> Some(TimesMicro(float(s)))]
    ELSE IF s # <<>> THEN [exc |-> "ValueError", val |-> old]
    ELSE [exc |-> "none", val |-> old]

\* A faulty merge that renames the cell and leaves it under its old key; C2
\* must tell it apart.
merge_cells_under_old_key(L, c, name) ==
    IF ~Has(L.cells, name) THEN Raise(L, "KeyError")
    ELSE [L EXCEPT !.cell_heap[c].cell_id = name \o <<"/">> \o @,
                   !.cell_heap[c].stim_point_ext_id = Some(name),
                   !.cells = Pop(@, name)]

\* The merge of the stimulated point `name` into the patched cell c.
merge_cells(L, c, name) ==
    IF ~Has(L.cells, name) THEN Raise(L, "KeyError")
    ELSE
    LET ps_cell == L.cell_heap[Get(L.cells, name)]
        cells1 == Pop(L.cells, name)
        old_name == L.cell_heap[c].cell_id
        cell == [L.cell_heap[c] EXCEPT
                    !.cell_id = name \o <<"/">> \o old_name,
                    !.stim_point_ext_id = Some(name),
                    !.stim_point_info =
                        Some([position |-> ps_cell.position,
                              target_layer |-> ps_cell.target_layer,
                              percent_depth |-> ps_cell.percent_depth,
                              distance_to_pia |-> ps_cell.distance_to_pia,
                              distance_to_wm |-> ps_cell.distance_to_wm])]
    IN
    IF ~Has(cells1, old_name) THEN Raise(L, "KeyError")
    ELSE [L EXCEPT !.cell_heap[c] = cell,
                   !.cells = Set(Pop(cells1, old_name), cell.cell_id, c)]

\* A faulty branch that takes toPia and toWM whatever the cell has already;
\* C16 must tell it apart.
one_distance_overwriting(L, c, d) ==
    LET merged(L1) ==
            IF d.photostim_as = <<>> THEN L1
            ELSE IF ~intParses(d.photostim_as) THEN Raise(L1, "ValueError")
            ELSE merge_cells(L1, c, Point_ \o str(int(d.photostim_as)))
        measured(pia, wm) ==
            IF pia.exc # "none" THEN Raise(L, pia.exc)
            ELSE IF wm.exc # "none" THEN Raise(L, wm.exc)
            ELSE merged([L EXCEPT !.cell_heap[c].distance_to_pia = pia.val,
                                  !.cell_heap[c].distance_to_wm = wm.val])
    IN measured(micrometres(d.toPia, L.cell_heap[c].distance_to_pia),
                micrometres(d.toWM, L.cell_heap[c].distance_to_wm))

\* The distances of one electrode: the branch len(dist) == 1.
one_distance(L, c, d) ==
    LET cell == L.cell_heap[c]
        merged(L1) ==
            IF d.photostim_as = <<>> THEN L1
            ELSE IF ~intParses(d.photostim_as) THEN Raise(L1, "ValueError")
            ELSE merge_cells(L1, c, Point_ \o str(int(d.photostim_as)))
        measured(pia, wm) ==
            IF pia.exc # "none" THEN Raise(L, pia.exc)
            ELSE IF wm.exc # "none" THEN Raise(L, wm.exc)
            ELSE merged([L EXCEPT !.cell_heap[c].distance_to_pia = pia.val,
                                  !.cell_heap[c].distance_to_wm = wm.val])
    IN measured(IF IsNone(cell.distance_to_pia) THEN micrometres(d.toPia, None)
                ELSE [exc |-> "none", val |-> cell.distance_to_pia],
                IF IsNone(cell.distance_to_wm) THEN micrometres(d.toWM, None)
                ELSE [exc |-> "none", val |-> cell.distance_to_wm])

\* The body of the loop over electrodes.items(), for the electrode e.
meta_electrode(L, e, meta_info, preEffector) ==
    LET n == last_char(L.elec_heap[e].electrode_id)
        c == Val(L.elec_heap[e].cell)
        cell == L.cell_heap[c]
        hs == HS(meta_info, n)
        is_positive == get_lower(hs.reporter) = positive
        \* initial_call, target_layer, cre_type, labels and internal solution
        described ==
            [L EXCEPT !.cell_heap[c] =
                        [cell EXCEPT
                            !.initial_call = IF IsNone(@) THEN hs.class ELSE @,
                            !.target_layer = IF IsNone(@) /\ ~IsNone(hs.layer)
                                             THEN Some(strip_layer(Val(hs.layer))) ELSE @,
                            !.cre_type = IF is_positive
                                         THEN Some(get_lower(meta_info.presynapticCre))
                                         ELSE @,
                            !.labels = label_cell(cell, preEffector, is_positive)],
                      !.elec_heap[e].internal_solution = Some(get_lower(meta_info.internal))]
        \* the distances of the electrode
        measured(L1, distances) ==
            LET dist == SelectSeq(distances, LAMBDA d : d.headstage = n) IN
            IF Len(distances) > 0 /\ Len(dist) = 1 THEN one_distance(L1, c, dist[1])
            ELSE IF Len(distances) > 0 /\ Len(dist) > 1 THEN Raise(L1, "Exception")
            ELSE L1
        \* percent_depth from the two distances
        depth(L2, pia, wm) ==
            IF IsZero(Add(pia, wm)) THEN Raise(L2, "ZeroDivisionError")
            ELSE [L2 EXCEPT !.cell_heap[c].percent_depth = Some(Divide(pia, Add(pia, wm)))]
        located(L2) ==
            IF L2.exc # "none" THEN L2
            ELSE IF /\ IsNone(L2.cell_heap[c].percent_depth)
                    /\ ~IsNone(L2.cell_heap[c].distance_to_pia)
                    /\ ~IsNone(L2.cell_heap[c].distance_to_wm)
            THEN depth(L2, Val(L2.cell_heap[c].distance_to_pia),
                       Val(L2.cell_heap[c].distance_to_wm))
            ELSE L2
    IN
    IF IsNone(cell.target_layer) /\ IsNone(hs.layer)
    THEN Raise(L, "AttributeError")          \* None.strip()
    ELSE located(measured(described,
                          IF IsNone(meta_info.distances) THEN <<>>
                          ELSE Val(meta_info.distances)))

RECURSIVE meta_electrodes(_, _, _, _)
meta_electrodes(items, L, meta_info, preEffector) ==
    IF items = <<>> \/ L.exc # "none" THEN L
    ELSE meta_electrodes(Tail(items), meta_electrode(L, Head(items).v, meta_info, preEffector),
                         meta_info, preEffector)

\* The last loop: the stimulated cells that are not patched.
meta_stimulated(L, meta_info, preEffector) ==
    [L EXCEPT !.cell_heap =
        [c \in 1..Len(L.cell_heap) |->
            LET cell == L.cell_heap[c] IN
            IF (\E i \in 1..Len(L.cells) : L.cells[i].v = c)
               /\ ~cell.has_readout /\ cell.has_stimulation
            THEN [cell EXCEPT !.cre_type = Some(get_lower(meta_info.presynapticCre)),
                              !.labels = label_cell(cell, preEffector, TRUE)]
            ELSE cell]]

\* process_meta_info(electrodes, cells, meta_info), on what was loaded.
process_meta_info(L, meta_info) ==
    IF IsNone(meta_info) THEN Raise(L, "AttributeError")   \* None.get
    ELSE LET preEffector == get_lower(Val(meta_info).presynapticEffector)
             stimulated(L1) ==
                 IF L1.exc # "none" THEN L1
                 ELSE meta_stimulated(L1, Val(meta_info), preEffector)
         IN stimulated(meta_electrodes(L.electrodes, L, Val(meta_info), preEffector))

\* --------------------------------------------------------------- create_pairs
\* Pair(preCell, postCell): nothing is known yet of _probed and _connection_call.
Pair(preCell, postCell) ==
    [preCell |-> preCell, postCell |-> postCell, probed |-> None, connection_call |-> None]

\* A faulty inner loop without the test `preCell is postCell`; C14 must tell
\* it apart.
RECURSIVE pairs_of_with_itself(_, _, _, _, _)
pairs_of_with_itself(L, values, preCell, j, pairs) ==
    IF j > Len(values) THEN pairs
    ELSE IF L.cell_heap[preCell].has_stimulation /\ L.cell_heap[values[j]].has_readout
    THEN pairs_of_with_itself(L, values, preCell, j + 1,
                              Set(pairs, <<L.cell_heap[preCell].cell_id,
                                           L.cell_heap[values[j]].cell_id>>,
                                  Pair(preCell, values[j])))
    ELSE pairs_of_with_itself(L, values, preCell, j + 1, pairs)

\* The inner loop over postCell, for the cells from position j on.
RECURSIVE pairs_of(_, _, _, _, _)
pairs_of(L, values, preCell, j, pairs) ==
    IF j > Len(values) THEN pairs
    ELSE LET postCell == values[j] IN
         IF preCell = postCell THEN pairs_of(L, values, preCell, j + 1, pairs)
         ELSE IF L.cell_heap[preCell].has_stimulation /\ L.cell_heap[postCell].has_readout
         THEN pairs_of(L, values, preCell, j + 1,
                       Set(pairs, <<L.cell_heap[preCell].cell_id, L.cell_heap[postCell].cell_id>>,
                           Pair(preCell, postCell)))
         ELSE pairs_of(L, values, preCell, j + 1, pairs)

\* The outer loop over preCell.
RECURSIVE all_pairs(_, _, _, _)
all_pairs(L, values, i, pairs) ==
    IF i > Len(values) THEN pairs
    ELSE all_pairs(L, values, i + 1, pairs_of(L, values, values[i], 1, pairs))

\* A faulty lookup under the id of the pre cell instead of its
\* stim_point_ext_id; C15 must tell it apart.
has_connection_call_of_cell_id(L, p) ==
    /\ Has(fs_body.Headstages,
           L.elec_heap[Val(L.cell_heap[p.postCell].electrode)].electrode_id)
    /\ ~IsNone(L.cell_heap[p.preCell].stim_point_ext_id)
    /\ Has(Get(fs_body.Headstages,
               L.elec_heap[Val(L.cell_heap[p.postCell].electrode)].electrode_id).Connections,
           L.cell_heap[p.preCell].cell_id)

\* exp_json['Headstages'][electrode_id]['Connections'][stim_point_ext_id]
\* can be read
has_connection_call(L, p) ==
    LET post == L.cell_heap[p.postCell]
        pre == L.cell_heap[p.preCell]
        electrode_id == L.elec_heap[Val(post.electrode)].electrode_id
    IN /\ Has(fs_body.Headstages, electrode_id)
       /\ ~IsNone(pre.stim_point_ext_id)
       /\ Has(Get(fs_body.Headstages, electrode_id).Connections, Val(pre.stim_point_ext_id))

connection_call(L, p) ==
    Get(Get(fs_body.Headstages,
            L.elec_heap[Val(L.cell_heap[p.postCell].electrode)].electrode_id).Connections,
        Val(L.cell_heap[p.preCell].stim_point_ext_id))

\* create_pairs(cells) of a loader whose cnx_file is cnx: [exc, pairs].
create_pairs(L, cnx) ==
    LET called(pairs) ==
            IF cnx = NotFound THEN [exc |-> "none", pairs |-> pairs]
            ELSE IF \E i \in 1..Len(pairs) :
                       IsNone(L.cell_heap[pairs[i].v.postCell].electrode)
            THEN [exc |-> "AttributeError", pairs |-> <<>>]     \* None.electrode_id
            ELSE [exc |-> "none",
                  pairs |-> [i \in 1..Len(pairs) |->
                                [k |-> pairs[i].k,
                                 v |-> IF has_connection_call(L, pairs[i].v)
                                       THEN [pairs[i].v EXCEPT
                                                !.connection_call =
                                                    Some(connection_call(L, pairs[i].v)),
                                                !.probed = Some(TRUE)]
                                       ELSE [pairs[i].v EXCEPT !.probed = Some(FALSE)]]]]
    IN called(all_pairs(L, [i \in 1..Len(L.cells) |-> L.cells[i].v], 1, <<>>))

\* ----------------------------------------------------------------------- load
\* What load returns, or how far it got: the loading function it took, the
\* three OrderedDicts and the objects they hold.
Loaded(route, L, pairs) ==
    [route |-> route, electrodes |-> L.electrodes, cells |-> L.cells, pairs |-> pairs,
     cell_heap |-> L.cell_heap, elec_heap |-> L.elec_heap]

\* The loading function load calls for the connections file cnx.
route_of(cnx) ==
    IF cnx = NotFound THEN "load_without_connection_file"
    ELSE LET version == get_cnx_file_version(cnx) IN
         IF version = 0 THEN "load_markPoints_connection_file"
         ELSE "load_mosaiceditor_connection_file"

\* OptoExperimentLoader.load when the two globs list the connections files as
\* cnx_listing and the photostimulation logs as log_listing:
\* [exc, val, cache], cache being _cnx_file afterwards.
load(cnx_listing, log_listing) ==
    LET raised(cnx, route, exc) ==
            [exc |-> exc, val |-> Loaded(route, EmptyLoad, <<>>), cache |-> cnx.cache]
        paired(cnx, route, L, pairs) ==
            IF pairs.exc # "none" THEN raised(cnx, route, pairs.exc)
            ELSE [exc |-> "none", val |-> Loaded(route, L, pairs.pairs), cache |-> cnx.cache]
        processed(cnx, route, L) ==
            IF L.exc # "none" THEN raised(cnx, route, L.exc)
            ELSE paired(cnx, route, L, create_pairs(L, cnx.val))
        loaded(cnx, route, L) ==
            IF L.exc # "none" THEN raised(cnx, route, L.exc)
            ELSE processed(cnx, route, process_meta_info(L, meta_info_))
        routed(cnx, route) ==
            loaded(cnx, route,
                   IF route = "load_without_connection_file"
                   THEN load_without_connection_file(log_listing)
                   ELSE IF route = "load_markPoints_connection_file"
                   THEN load_markPoints_connection_file
                   ELSE load_mosaiceditor_connection_file)
        found(cnx) ==
            IF cnx.exc # "none" THEN raised(cnx, "none", cnx.exc)
            ELSE routed(cnx, route_of(cnx.val))
    IN found(cnx_file(cnx_listing))

\* loader.load(expt)
CallLoad ==
    /\ pc = "constructed"
    /\ cls = "OptoExperimentLoader"
    /\ \E cnx_listing \in Perms(CnxGlob), log_listing \in Perms(DOMAIN fs_stimlog) :
          \E r \in {load(cnx_listing, log_listing)} :
             /\ ret' = [op |-> "load", exc |-> r.exc, val |-> r.val]
             /\ cnx_file_' = r.cache
    /\ UNCHANGED <<pc, cls, site_path, meta_info_, env>>

\* A direct call of loader.load_without_connection_file(expt).
CallLoadWithoutConnectionFile ==
    /\ pc = "constructed"
    /\ cls = "OptoExperimentLoader"
    /\ \E log_listing \in Perms(DOMAIN fs_stimlog) :
          \E L \in {load_without_connection_file(log_listing)} :
             ret' = [op |-> "load_without_connection_file", exc |-> L.exc,
                     val |-> Loaded("load_without_connection_file", L, <<>>)]
    /\ UNCHANGED <<pc, self, env>>

\* loader.process_meta_info(electrodes, cells, meta_info) on the electrodes and
\* cells that the loading function for the loader's connections file returns;
\* both are changed in place, so the call is recorded with what they were.
CallProcessMetaInfo ==
    /\ pc = "constructed"
    /\ cls = "OptoExperimentLoader"
    /\ cnx_file_ # NonePath
    /\ \E log_listing \in Perms(DOMAIN fs_stimlog) :
          \E L \in {IF route_of(cnx_file_) = "load_without_connection_file"
                     THEN load_without_connection_file(log_listing)
                     ELSE IF route_of(cnx_file_) = "load_markPoints_connection_file"
                     THEN load_markPoints_connection_file
                     ELSE load_mosaiceditor_connection_file} :
             /\ L.exc = "none"
             /\ \E meta_info \in {None, Some(expt_meta)} :
                   \E r \in {process_meta_info(L, meta_info)} :
                      ret' = [op |-> "process_meta_info", exc |-> r.exc,
                              val |-> [before |-> L, after |-> r, meta_info |-> meta_info]]
    /\ UNCHANGED <<pc, self, env>>

\* ------------------------------------------------------------- rig operator
_connections == <<"_", "c", "o", "n", "n", "e", "c", "t", "i", "o", "n", "s">>

\* os.path.split(path)[1]: the names of the files of the worlds.  The file a
\* load_file argument names is e1_TH_connections.json, the file meta_info
\* names is expt_connections.json, and the files of the site directory are
\* connections_1.json, connections_2.json, ...
file_name(path) ==
    IF path = LoadFilePath
    THEN <<"e", "1", "_", "T", "H">> \o _connections \o <<".", "j", "s", "o", "n">>
    ELSE IF path = MetaCnxPath
    THEN <<"e", "x", "p", "t">> \o _connections \o <<".", "j", "s", "o", "n">>
    ELSE Tail(_connections) \o <<"_">> \o str(path.name) \o <<".", "j", "s", "o", "n">>

\* meta_info['experiment']: the name that find_connections_file joins to
\* meta_info['connections_dir'].
experiment(meta_info) == file_name(MetaCnxPath)

\* s.partition(sep)[0]: what comes before the first sep, all of s without one.
partition_head(s, sep) ==
    LET at == {i \in 1..(Len(s) - Len(sep) + 1) : SubSeq(s, i, i + Len(sep) - 1) = sep} IN
    IF at = {} THEN s
    ELSE SubSeq(s, 1, (CHOOSE i \in at : \A j \in at : i <= j) - 1)

\* s.split(sep)[-1]: what comes after the last sep, all of s without one.
split_last(s, sep) ==
    LET at == {i \in 1..Len(s) : s[i] = sep} IN
    IF at = {} THEN s
    ELSE SubSeq(s, (CHOOSE i \in at : \A j \in at : i >= j) + 1, Len(s))

\* OptoExperimentLoader.get_ext_id: [exc, val, cache], cache being _cnx_file
\* afterwards.
get_ext_id(listing) ==
    LET named(f) ==
            IF f.exc # "none" THEN [exc |-> f.exc, val |-> <<>>, cache |-> f.cache]
            ELSE IF f.val # NotFound
            THEN [exc |-> "none", val |-> partition_head(file_name(f.val), _connections),
                  cache |-> f.cache]
            ELSE IF ~IsNone(meta_info_)
            THEN [exc |-> "none",
                  val |-> partition_head(experiment(Val(meta_info_)), _connections),
                  cache |-> f.cache]
            ELSE [exc |-> "Exception", val |-> <<>>, cache |-> f.cache]
    IN named(cnx_file(listing))

\* AI_ExperimentLoader.get_rig_operator: get_expt_info().get('rig_operator',
\* None); get_expt_info() is {} without a site_path.
AI_get_rig_operator == IF site_path = NonePath THEN None ELSE fs_rig_operator

\* OptoExperimentLoader.get_rig_operator: [exc, val, cache].  The function has
\* a return statement in the branch op is None only; otherwise it runs off
\* its end and returns None.
get_rig_operator(listing) ==
    LET op == AI_get_rig_operator
        token(id) ==
            IF id.exc # "none" THEN [exc |-> id.exc, val |-> None, cache |-> id.cache]
            ELSE [exc |-> "none", val |-> Some(split_last(id.val, "_")), cache |-> id.cache]
    IN IF IsNone(op) THEN token(get_ext_id(listing))
       ELSE [exc |-> "none", val |-> None, cache |-> cnx_file_]

\* loader.get_rig_operator().  The site directory is listed only when the
\* call gets as far as find_connections_file.
CallGetRigOperator ==
    /\ pc = "constructed"
    /\ \E listing \in (IF cls = "OptoExperimentLoader" /\ IsNone(AI_get_rig_operator)
                           /\ cnx_file_ = NonePath
                        THEN Perms(CnxGlob) ELSE {<<>>}) :
          \E r \in {IF cls = "OptoExperimentLoader" THEN get_rig_operator(listing)
                    ELSE [exc |-> "none", val |-> AI_get_rig_operator, cache |-> cnx_file_]} :
             /\ ret' = [op |-> "get_rig_operator", exc |-> r.exc, val |-> r.val]
             /\ cnx_file_' = r.cache
    /\ UNCHANGED <<pc, cls, site_path, meta_info_, env>>

\* ------------------------------------------------------------- environments
\* The 'version' entries a connections file may carry (None: no entry).
CnxVersions == {None} \cup {Some(v) : v \in 0..MaxVersion}

\* The connections files of a world with at most n of them in the site
\* directory; the file a load_file argument names always exists, the file
\* meta_info names need not.
CnxWorlds(n, outside) ==
    UNION {[{SiteFile(i) : i \in 1..k} \cup {LoadFilePath} \cup m -> CnxVersions] :
           k \in 0..n, m \in outside}

\* 'temperature' strings.
TempAlphabet == {"R", "r", "t", "c", " ", "3", "."}
Temperatures(n) == {None} \cup {Some(t) : t \in UNION {[1..k -> TempAlphabet] : k \in 0..n}}

\* Multipatch logs: line j of log i is either a 'surface_depth_changed' line
\* or some other line; its surface_depth tells the lines apart.
MpLog(i, flags) ==
    [j \in 1..Len(flags) |-> [surface_depth_changed |-> flags[j], surface_depth |-> 10 * i + j]]
MpLogs(n, m) ==
    UNION {{[i \in 1..k |-> MpLog(i, fl[i])] :
              fl \in [1..k -> UNION {[1..q -> BOOLEAN] : q \in 0..m}]} : k \in 0..n}

\* The connections files of a world in which every file has the same version,
\* and the file meta_info names is there only when the site directory has none.
UniformCnxWorlds(n) ==
    {w \in CnxWorlds(n, {{}, {MetaCnxPath}}) :
        /\ \A f, g \in DOMAIN w : w[f] = w[g]
        /\ MetaCnxPath \in DOMAIN w => SiteFile(1) \notin DOMAIN w}

\* What a connections file holds.  Point k lies 6 micrometres from point k + 1.
PointAt(k, onCell) ==
    [name |-> Point_ \o str(k), pos |-> <<Number(6 * k, 0), Number(0, 0), Number(0, 0)>>,
     onCell |-> onCell, target_layer |-> Some(<<"L", "2">>), percent_depth |-> None,
     distance_to_pia |-> None, distance_to_wm |-> None]

PointLists(n) == UNION {{[k \in 1..m |-> PointAt(k, on[k])] : on \in [1..m -> BOOLEAN]} : m \in 0..n}

\* The calls a headstage records: "all" a call on every point, the same for
\* each; "mixed" a call on every point, differing between neighbours; "first"
\* a call on the first point only.
ConnectionsOf(points, style) ==
    LET recorded == IF style = "first" THEN 1..Min(1, Len(points)) ELSE 1..Len(points) IN
    [k \in recorded |->
        [k |-> points[k].name,
         v |-> IF style = "mixed" /\ k % 2 = 0 THEN <<"n", "o">> ELSE <<"y", "e", "s">>]]

HeadstageOf(dev, points, style) ==
    [k |-> electrode_name(dev),
     v |-> [pos |-> <<Number(100 + dev, 0), Number(0, 0), Number(0, 0)>>,
            Connections |-> ConnectionsOf(points, style),
            target_layer |-> None, percent_depth |-> None,
            distance_to_pia |-> IF dev = 1 THEN Some(Number(5, -5)) ELSE None,
            distance_to_wm |-> None]]

DeviceLists == {<<0>>, <<0, 1>>, <<0, 10>>}

Bodies(n) ==
    {[points |-> pts,
      Headstages |-> [i \in 1..Len(devs) |-> HeadstageOf(devs[i], pts, style)]] :
        pts \in PointLists(n), devs \in DeviceLists, style \in {"all", "first"}}

EmptyBody == [points |-> <<>>, Headstages |-> <<>>]

\* NWB files: none, or one whose dataset has the given devices.
Device(id) == [type |-> "int", id |-> id]
OtherDevice == [type |-> "str", id |-> 0]
NwbFile(devices) == [ext |-> "nwb", devices |-> devices]
NwbWorlds == {<<>>, <<NwbFile(<<Device(0), OtherDevice, Device(1)>>)>>}

\* Photostimulation logs: each an optional version line and one stimulation.
StimEntry(key, pt, on) ==
    [k |-> key, v |-> [stimulationPoint |-> pt, name |-> Point_ \o str(pt),
                       pos |-> <<Number(pt, -5), Number(0, 0), Number(0, 0)>>,
                       onCell |-> on]]
\* Two stimulations of point 1 that differ in onCell, and two stimulations
\* logged under the same key.
StimEntries == {StimEntry("s1", 1, TRUE), StimEntry("s2", 1, FALSE), StimEntry("s2", 2, FALSE)}
VersionLines == {<<>>} \cup {<<<<[k |-> "version", v |-> [version |-> n]]>>>> : n \in 1..2}
StimLogFiles == {h \o <<<<e>>>> : h \in VersionLines, e \in StimEntries}
StimLogs(n) == UNION {[1..k -> StimLogFiles] : k \in 0..n}

\* meta_info dicts.
HeadstageInfo ==
    [class |-> Some(<<"p", "y", "r">>), layer |-> Some(<<" ", "L", "5">>),
     reporter |-> Some(<<"P", "o", "s", "i", "t", "i", "v", "e">>)]
MetaInfo(hs, distances) ==
    [presynapticEffector |-> Some(<<"A", "i", "1", "6", "7">>),
     presynapticCre |-> Some(<<"P", "v">>), internal |-> Some(<<"K">>),
     HS |-> hs, distances |-> distances]
BothHeadstages == <<[k |-> <<"0">>, v |-> HeadstageInfo], [k |-> <<"1">>, v |-> HeadstageInfo]>>
Distance(headstage, toPia, toWM, photostim_as) ==
    [headstage |-> headstage, toPia |-> toPia, toWM |-> toWM, photostim_as |-> photostim_as]
PlainMeta == MetaInfo(BothHeadstages, None)
\* Distances measured for headstage 0
DistanceMeta == MetaInfo(BothHeadstages, Some(<<Distance(<<"0">>, <<"3">>, <<"7">>, <<>>)>>))
\* Headstage 0 patched the cell that was photostimulated as Point 1
MergeMeta == MetaInfo(BothHeadstages, Some(<<Distance(<<"0">>, <<>>, <<>>, <<"1">>)>>))
MetaInfos == {PlainMeta, DistanceMeta, MergeMeta}
\* The meta_info dicts of the loading worlds; measured distances have worlds
\* of their own.
LoadMetaInfos == {PlainMeta, MergeMeta}

InitEnv(cnxs, temps, mplogs, bodies, nwbs, manifests, stimlogs, metas, operators) ==
    /\ pc = "new"
    /\ cls = "none"
    /\ site_path = NonePath
    /\ cnx_file_ = NonePath
    /\ meta_info_ = None
    /\ ret = [op |-> "none", exc |-> "none", val |-> None]
    /\ fs_cnx \in cnxs
    /\ fs_temperature \in temps
    /\ fs_rig_operator \in operators
    /\ fs_mplogs \in mplogs
    /\ fs_body \in bodies
    /\ fs_nwb \in nwbs
    /\ fs_manifest \in manifests
    /\ fs_stimlog \in stimlogs
    /\ expt_meta \in metas

Construct ==
    \E load_file \in {NonePath, LoadFilePath}, sp \in {NonePath, SitePath} :
        \/ ConstructAI(load_file, sp)
        \/ \E meta_info \in {None, Some(expt_meta)} :
              ConstructOpto(load_file, sp, meta_info)

Next ==
    \/ Construct
    \/ CallFindConnectionsFile
    \/ ReadCnxFile
    \/ CallLoad
    \/ CallLoadWithoutConnectionFile
    \/ CallProcessMetaInfo
    \/ CallGetEphysFile
    \/ CallGetRigOperator
    \/ CallGetTargetTemperature
    \/ CallGetSurfaceDepth

NoTemps == {None}
NoMpLogs == {<<>>}
NoStimLogs == {<<>>}
NoManifest == {None}
NoRigOperator == {None}
OnlyLoadFile == {[f \in {LoadFilePath} |-> None]}
PlainCnxWorlds(n) == {w \in CnxWorlds(n, {{}, {MetaCnxPath}}) :
                        \A f \in DOMAIN w : f.dir # "site_path" => w[f] = None}

\* Loading: the worlds differ in what the connections file in use, the NWB
\* file and meta_info hold.
Init ==
    InitEnv(UniformCnxWorlds(1), NoTemps, NoMpLogs, Bodies(MaxPoints),
            NwbWorlds, NoManifest, NoStimLogs, LoadMetaInfos, NoRigOperator)
Spec == Init /\ [][Next]_vars

\* Loading without a connections file: the worlds differ in the
\* photostimulation logs and the NWB file.
InitLog ==
    InitEnv(PlainCnxWorlds(0), NoTemps, NoMpLogs, {EmptyBody}, NwbWorlds,
            NoManifest, StimLogs(MaxStimLogs), {PlainMeta}, NoRigOperator)
SpecLog == InitLog /\ [][Next]_vars

\* Finding the connections file: the worlds differ in the candidate files.
InitFind ==
    InitEnv(PlainCnxWorlds(MaxCnxFiles), NoTemps, NoMpLogs, {EmptyBody}, {<<>>},
            NoManifest, NoStimLogs, {PlainMeta}, NoRigOperator)
SpecFind == InitFind /\ [][Next]_vars

\* The target temperature: the worlds differ in the 'temperature' string.
InitTemp ==
    InitEnv(OnlyLoadFile, Temperatures(MaxTempLen), NoMpLogs, {EmptyBody}, {<<>>},
            NoManifest, NoStimLogs, {PlainMeta}, NoRigOperator)
SpecTemp == InitTemp /\ [][Next]_vars

\* The surface depth: the worlds differ in the multipatch logs.
InitDepth ==
    InitEnv(OnlyLoadFile, NoTemps, MpLogs(MaxMpLogs, MaxLogLines), {EmptyBody}, {<<>>},
            NoManifest, NoStimLogs, {PlainMeta}, NoRigOperator)
SpecDepth == InitDepth /\ [][Next]_vars

\* Directory listings: the worlds with several connections files and those
\* with several photostimulation logs.
InitDet ==
    \/ InitEnv(PlainCnxWorlds(MaxListed), NoTemps, NoMpLogs, {EmptyBody}, {<<>>},
               NoManifest, NoStimLogs, {PlainMeta}, NoRigOperator)
    \/ InitEnv(PlainCnxWorlds(0), NoTemps, NoMpLogs, {EmptyBody}, NwbWorlds,
               NoManifest, StimLogs(MaxListed), {PlainMeta}, NoRigOperator)
SpecDet == InitDet /\ [][Next]_vars

\* The NWB file: the worlds differ in the NWB files of the site, which end in
\* '.nwb' or in '.NWB', and in the manifest.
NwbFiles(n) ==
    UNION {{[i \in 1..k |-> [ext |-> ext[i], devices |-> <<Device(i)>>]] :
              ext \in [1..k -> {"nwb", "NWB"}]} : k \in 0..n}
ManifestEntry(category, i) == [category |-> category, path |-> i]
Manifests(n) ==
    {None} \cup
    UNION {{Some([i \in 1..k |-> ManifestEntry(cat[i], i)]) :
              cat \in [1..k -> {"MIES physiology", "image"}]} : k \in 0..n}
InitNwb ==
    InitEnv(OnlyLoadFile, NoTemps, NoMpLogs, {EmptyBody}, NwbFiles(MaxNwbFiles),
            Manifests(MaxManifest), NoStimLogs, {PlainMeta}, NoRigOperator)
SpecNwb == InitNwb /\ [][Next]_vars

\* Duplicated points: markPoints files whose points lie 6 micrometres apart
\* along x, some of them 9 micrometres deeper, and whose last headstage
\* records the given calls while the others record 'yes' on every point.
MarkPoint(k, deep) ==
    [PointAt(k, TRUE) EXCEPT !.pos = <<Number(6 * k, 0), Number(0, 0),
                                       Number(IF deep THEN 9 ELSE 0, 0)>>]
MarkConnections(points, calls) ==
    [k \in 1..Len(points) |-> [k |-> points[k].name, v |-> calls[k]]]
MarkHeadstage(dev, points, calls) ==
    [k |-> electrode_name(dev),
     v |-> [HeadstageOf(dev, points, "all").v EXCEPT
               !.Connections = MarkConnections(points, calls)]]
MarkDeviceLists == {<<0>>, <<0, 1>>}
MarkBodies(n) ==
    UNION {{[points |-> [k \in 1..m |-> MarkPoint(k, deep[k])],
             Headstages |->
                [i \in 1..Len(devs) |->
                    MarkHeadstage(devs[i], [k \in 1..m |-> MarkPoint(k, deep[k])],
                                  IF i = Len(devs) THEN calls
                                  ELSE [k \in 1..m |-> <<"y", "e", "s">>])]] :
              deep \in [1..m -> BOOLEAN],
              calls \in [1..m -> {<<"y", "e", "s">>, <<"n", "o">>}],
              devs \in MarkDeviceLists} : m \in 0..n}
\* One connections file in the site directory, without a 'version' entry.
MarkCnxWorlds == {[f \in {LoadFilePath, SiteFile(1)} |-> None]}
MarkNwbWorlds == NwbWorlds \cup {<<NwbFile(<<Device(0)>>)>>}
InitMark ==
    InitEnv(MarkCnxWorlds, NoTemps, NoMpLogs, MarkBodies(MaxMarkPoints), MarkNwbWorlds,
            NoManifest, NoStimLogs, {PlainMeta}, NoRigOperator)
SpecMark == InitMark /\ [][Next]_vars

\* Merging meta_info: connections files of either version whose headstages
\* carry depth data or none, and meta_info dicts that measure headstage 0 or
\* headstage 1, name a stimulated point, or lack a headstage.
FileDepth(target_layer, distance_to_pia, distance_to_wm, percent_depth) ==
    [target_layer |-> target_layer, distance_to_pia |-> distance_to_pia,
     distance_to_wm |-> distance_to_wm, percent_depth |-> percent_depth]
FileDepths ==
    {FileDepth(None, None, None, None),
     FileDepth(Some(<<" ", "L", "4">>), Some(Number(5, -5)), None, None),
     FileDepth(None, Some(Number(5, -5)), Some(Number(2, -5)), None),
     FileDepth(Some(<<"L", "4">>), Some(Number(5, -5)), Some(Number(2, -5)),
               Some([num |-> 1, den |-> 4]))}
MetaHeadstage(dev, points, depth) ==
    [k |-> electrode_name(dev),
     v |-> [HeadstageOf(dev, points, "all").v EXCEPT
               !.target_layer = depth.target_layer,
               !.distance_to_pia = depth.distance_to_pia,
               !.distance_to_wm = depth.distance_to_wm,
               !.percent_depth = depth.percent_depth]]
MetaBodies(n) ==
    {[points |-> pts,
      Headstages |-> [i \in 1..Len(devs) |-> MetaHeadstage(devs[i], pts, depth)]] :
        pts \in PointLists(n), devs \in DeviceLists, depth \in FileDepths}
MetaCnxWorlds == {[f \in {LoadFilePath, SiteFile(1)} |-> v] : v \in {None, Some(1)}}
OnlyHeadstage0 == <<[k |-> <<"0">>, v |-> HeadstageInfo]>>
MeasuredMetaInfos ==
    MetaInfos \cup
    {MetaInfo(BothHeadstages, Some(<<Distance(<<"1">>, <<"3">>, <<"7">>, <<>>)>>)),
     MetaInfo(BothHeadstages, Some(<<Distance(<<"1">>, <<"3">>, <<>>, <<"1">>)>>)),
     MetaInfo(BothHeadstages, Some(<<Distance(<<"0">>, <<"3">>, <<"7">>, <<>>),
                                     Distance(<<"0">>, <<"4">>, <<"7">>, <<>>)>>)),
     MetaInfo(OnlyHeadstage0, Some(<<Distance(<<"1">>, <<"3">>, <<"7">>, <<>>)>>))}
InitMeta ==
    InitEnv(MetaCnxWorlds, NoTemps, NoMpLogs, MetaBodies(MaxMetaPoints), NwbWorlds,
            NoManifest, NoStimLogs, MeasuredMetaInfos, NoRigOperator)
SpecMeta == InitMeta /\ [][Next]_vars

\* The rig operator: the worlds differ in the connections files there are and
\* in whether the experiment's .index names an operator.
RigOperators == {None, Some(<<"m", "k">>)}
InitRig ==
    InitEnv(PlainCnxWorlds(MaxListed), NoTemps, NoMpLogs, {EmptyBody}, {<<>>},
            NoManifest, NoStimLogs, {PlainMeta}, RigOperators)
SpecRig == InitRig /\ [][Next]_vars
\* ===================================================================== claims
\* C1: load takes one loading function per call: load_without_connection_file
\* when cnx_file is "not found"; otherwise load_markPoints_connection_file
\* when the file's 'version' is 0 or absent, and
\* load_mosaiceditor_connection_file for every other version.
C1_LoadDispatch ==
    (ret.op = "load" /\ ret.val.route # "none") =>
        ret.val.route =
            IF cnx_file_ = NotFound THEN "load_without_connection_file"
            ELSE IF fs_cnx[cnx_file_] = None \/ fs_cnx[cnx_file_] = Some(0)
            THEN "load_markPoints_connection_file"
            ELSE "load_mosaiceditor_connection_file"

\* load has returned from a connections file without a 'version' entry.
C1_Witness ==
    /\ ret.op = "load"
    /\ ret.exc = "none"
    /\ cnx_file_ \in DOMAIN fs_cnx
    /\ fs_cnx[cnx_file_] = None
    /\ ret.val.route = "load_markPoints_connection_file"
    /\ Len(ret.val.cells) > 1

\* C2: what load returns is consistent: every key of cells is the cell_id of
\* its value; every electrode's cell is a value of cells, and the electrode of
\* that cell is that electrode; every pair key (pre_id, post_id) names two
\* distinct cells of cells, after a photostim merge as well.
C2_Consistent ==
    (ret.op = "load" /\ ret.exc = "none") =>
        /\ \A i \in 1..Len(ret.val.cells) :
              ret.val.cells[i].k = ret.val.cell_heap[ret.val.cells[i].v].cell_id
        /\ \A i \in 1..Len(ret.val.electrodes) :
              LET e == ret.val.electrodes[i].v IN
              /\ ~IsNone(ret.val.elec_heap[e].cell)
              /\ \E j \in 1..Len(ret.val.cells) :
                    ret.val.cells[j].v = Val(ret.val.elec_heap[e].cell)
              /\ ret.val.cell_heap[Val(ret.val.elec_heap[e].cell)].electrode = Some(e)
        /\ \A i \in 1..Len(ret.val.pairs) :
              LET p == ret.val.pairs[i] IN
              /\ p.k = <<ret.val.cell_heap[p.v.preCell].cell_id,
                         ret.val.cell_heap[p.v.postCell].cell_id>>
              /\ p.v.preCell # p.v.postCell
              /\ p.k[1] # p.k[2]
              /\ \E j \in 1..Len(ret.val.cells) :
                    ret.val.cells[j].k = p.k[1] /\ ret.val.cells[j].v = p.v.preCell
              /\ \E j \in 1..Len(ret.val.cells) :
                    ret.val.cells[j].k = p.k[2] /\ ret.val.cells[j].v = p.v.postCell

\* load has returned pairs after a stimulated point was merged into a patched
\* cell, whose id is then '<point>/<electrode>'.
C2_Witness ==
    /\ ret.op = "load"
    /\ ret.exc = "none"
    /\ Len(ret.val.pairs) > 0
    /\ \E i \in 1..Len(ret.val.cells) : "/" \in Range(ret.val.cells[i].k)
    /\ \E i \in 1..Len(ret.val.pairs) : "/" \in Range(ret.val.pairs[i].k[1])

\* The files of site_path with the highest version, an absent version being 0.
HighestFiles ==
    LET version(f) == IF fs_cnx[f] = None THEN 0 ELSE Val(fs_cnx[f]) IN
    {f \in CnxGlob : \A g \in CnxGlob : version(g) <= version(f)}

\* C3: with more than one '*connections*.json' file in site_path,
\* find_connections_file returns the file with the highest version and raises
\* an Exception when several files share it; with exactly one file it returns
\* that file.
C3_HighestVersion ==
    (ret.op = "find_connections_file" /\ site_path # NonePath) =>
        /\ Cardinality(CnxGlob) = 1 => ret.exc = "none" /\ ret.val \in CnxGlob
        /\ (Cardinality(CnxGlob) > 1 /\ Cardinality(HighestFiles) = 1) =>
              ret.exc = "none" /\ ret.val \in HighestFiles
        /\ (Cardinality(CnxGlob) > 1 /\ Cardinality(HighestFiles) > 1) =>
              ret.exc = "Exception"

\* find_connections_file has returned the second of three files, which has the
\* highest version.
C3_Witness ==
    /\ ret.op = "find_connections_file"
    /\ ret.exc = "none"
    /\ Cardinality(CnxGlob) = 3
    /\ ret.val = SiteFile(2)

\* C4: loading is deterministic: whatever the order in which the directory
\* entries are listed, find_connections_file chooses the same file and load
\* returns the same electrodes, cells and pairs, in the same order: the call
\* that has just returned gives the same under every listing.
C4_Deterministic ==
    /\ ret.op = "find_connections_file" =>
          \A listing \in Perms(CnxGlob) :
             \E r \in {find_connections_file(site_path, meta_info_, listing)} :
                ret.exc = r.exc /\ ret.val = r.val
    /\ ret.op = "load" =>
          \A cnx_listing \in Perms(CnxGlob), log_listing \in Perms(DOMAIN fs_stimlog) :
             \E r \in {load(cnx_listing, log_listing)} :
                ret.exc = r.exc /\ ret.val = r.val

\* load has returned the cells of two photostimulation logs that write the
\* same entry differently.
C4_Witness ==
    /\ ret.op = "load"
    /\ ret.exc = "none"
    /\ Len(fs_stimlog) = 2
    /\ \E i \in 1..Len(fs_stimlog[1]), j \in 1..Len(fs_stimlog[2]) :
          /\ fs_stimlog[1][i][1].k # "version"
          /\ fs_stimlog[1][i][1].k = fs_stimlog[2][j][1].k
          /\ fs_stimlog[1][i][1] # fs_stimlog[2][j][1]
    /\ Len(ret.val.cells) > 2

\* C5: with no '*connections*.json' file in site_path, find_connections_file
\* does not raise: it returns the path meta_info names when that exists, and
\* "not found" otherwise.
C5_NoFileNoRaise ==
    (ret.op = "find_connections_file" /\ site_path # NonePath /\ CnxGlob = {}) =>
        /\ ret.exc = "none"
        /\ ret.val = IF MetaCnxPath \in DOMAIN fs_cnx THEN MetaCnxPath ELSE NotFound
\* What the photostimulation logs say, read off the files: every entry of
\* every line of every log, in the order of the file names.
RECURSIVE Flatten(_)
Flatten(ss) == IF ss = <<>> THEN <<>> ELSE Head(ss) \o Flatten(Tail(ss))

LogEntries == Flatten(Flatten(fs_stimlog))

\* The value the log ends up with under key k, and where k first appears.
LastEntry(k) ==
    LogEntries[CHOOSE i \in 1..Len(LogEntries) :
                  /\ LogEntries[i].k = k
                  /\ \A j \in (i + 1)..Len(LogEntries) : LogEntries[j].k # k].v
FirstIndex(k) ==
    CHOOSE i \in 1..Len(LogEntries) :
        LogEntries[i].k = k /\ \A j \in 1..(i - 1) : LogEntries[j].k # k

LogVersion ==
    IF \E i \in 1..Len(LogEntries) : LogEntries[i].k = "version"
    THEN LastEntry("version").version
    ELSE -1

StimKeys == {LogEntries[i].k : i \in 1..Len(LogEntries)} \ {"version"}

PointName(k) ==
    IF LogVersion >= 2 THEN LastEntry(k).name
    ELSE Point_ \o str(LastEntry(k).stimulationPoint)

\* Of the stimulations of one point, the one whose key entered the log last
\* is the one that describes the point.
Describing(name) ==
    CHOOSE k \in StimKeys :
        /\ PointName(k) = name
        /\ \A k2 \in StimKeys : PointName(k2) = name => FirstIndex(k2) <= FirstIndex(k)

\* The logged points that are on a cell: all of them below version 2.
OnCellPoints ==
    {name \in {PointName(k) : k \in StimKeys} :
        LogVersion < 2 \/ LastEntry(Describing(name)).onCell}

\* The electrodes of the NWB file of the site: the devices that are ints.
NwbElectrodeNames ==
    {electrode_name(fs_nwb[1].devices[i].id) :
        i \in {j \in 1..Len(fs_nwb[1].devices) : fs_nwb[1].devices[j].type = "int"}}

\* C6: load_without_connection_file makes one stimulation-only cell
\* (has_readout False, has_stimulation True, no electrode) for each logged
\* point whose onCell is true, every logged point when the log's version is
\* below 2 or absent, and one patched cell and electrode per NWB electrode; it
\* raises an Exception when there is no NWB file.
C6_WithoutConnectionFile ==
    (ret.op = "load_without_connection_file" /\ site_path # NonePath) =>
        IF fs_nwb = <<>> THEN ret.exc = "Exception"
        ELSE
        LET cell(i) == ret.val.cell_heap[ret.val.cells[i].v]
            stimulated == {i \in 1..Len(ret.val.cells) : IsNone(cell(i).electrode)}
            patched == (1..Len(ret.val.cells)) \ stimulated
        IN
        /\ ret.exc = "none"
        /\ {ret.val.cells[i].k : i \in stimulated} = OnCellPoints
        /\ Cardinality(stimulated) = Cardinality(OnCellPoints)
        /\ \A i \in stimulated :
              /\ cell(i).cell_id = ret.val.cells[i].k
              /\ ~cell(i).has_readout
              /\ cell(i).has_stimulation
        /\ {ret.val.cells[i].k : i \in patched} = NwbElectrodeNames
        /\ Cardinality(patched) = Cardinality(NwbElectrodeNames)
        /\ \A i \in patched :
              /\ cell(i).cell_id = ret.val.cells[i].k
              /\ cell(i).has_readout
              /\ cell(i).has_stimulation
              /\ ret.val.elec_heap[Val(cell(i).electrode)].electrode_id = cell(i).cell_id
              /\ ret.val.elec_heap[Val(cell(i).electrode)].cell = Some(ret.val.cells[i].v)
              /\ \E e \in 1..Len(ret.val.electrodes) :
                    /\ ret.val.electrodes[e].k = cell(i).cell_id
                    /\ ret.val.electrodes[e].v = Val(cell(i).electrode)
        /\ Len(ret.val.electrodes) = Cardinality(NwbElectrodeNames)

\* load_without_connection_file has returned from a log of version 2 that has
\* a point on a cell and a point that is not.
C6_Witness ==
    /\ ret.op = "load_without_connection_file"
    /\ ret.exc = "none"
    /\ LogVersion >= 2
    /\ OnCellPoints # {}
    /\ \E k \in StimKeys : PointName(k) \notin OnCellPoints
    /\ Len(ret.val.cells) = 3

\* Every headstage of the connections file records a call on every point.
CompleteCalls ==
    \A h \in 1..Len(fs_body.Headstages), p \in 1..Len(fs_body.points) :
        Has(fs_body.Headstages[h].v.Connections, fs_body.points[p].name)

\* C7: meta_info is optional: a loader constructed with meta_info=None, and a
\* connections file given or found, loads without raising.
C7_MetaInfoOptional ==
    (/\ ret.op = "load"
     /\ meta_info_ = None
     /\ ret.val.route \in {"load_markPoints_connection_file",
                           "load_mosaiceditor_connection_file"}
     /\ CompleteCalls)
        => ret.exc = "none"

\* C8: a loader can be constructed only with exactly one of load_file and
\* site_path: __init__ raises an Exception when both are given and when both
\* are None, and returns in the two other cases.
C8_ExactlyOne ==
    ret.op = "__init__" =>
        LET load_file == ret.val[1]
            sp == ret.val[2]
        IN IF (load_file = NonePath) # (sp = NonePath)
           THEN ret.exc = "none" /\ pc = "constructed" /\ site_path = sp
           ELSE ret.exc = "Exception" /\ pc = "ctor_raised"

\* __init__ has raised for a loader given neither load_file nor site_path.
C8_Witness ==
    /\ ret.op = "__init__"
    /\ ret.val = <<NonePath, NonePath>>
    /\ pc = "ctor_raised"

\* C9: get_target_temperature returns None when there is no 'temperature' or
\* it is blank, 22.0 when it is 'rt' (in any case, a trailing 'c' and spaces
\* allowed), the number when it parses as one, and raises ValueError for every
\* other string.
C9_TargetTemperature ==
    ret.op = "get_target_temperature" =>
        IF IsNone(expt_info_temperature) THEN ret.exc = "none" /\ ret.val = None
        ELSE
        LET temp == strip(rstrip(lower(Val(expt_info_temperature)), {" ", "c"})) IN
        IF temp = <<>> THEN ret.exc = "none" /\ ret.val = None
        ELSE IF temp = <<"r", "t">> THEN ret.exc = "none" /\ ret.val = Some(Number(22, 0))
        ELSE IF floatParses(temp) THEN ret.exc = "none" /\ ret.val = Some(float(temp))
        ELSE ret.exc = "ValueError"

\* The multipatch logs get_surface_depth may read, and those of them that
\* have a 'surface_depth_changed' line.
DepthLogs == IF site_path = NonePath THEN {} ELSE DOMAIN fs_mplogs
ChangedLines(i) == {j \in 1..Len(fs_mplogs[i]) : fs_mplogs[i][j].surface_depth_changed}
ChangedLogs == {i \in DepthLogs : ChangedLines(i) # {}}
Last(S) == CHOOSE x \in S : \A y \in S : y <= x

\* C10, as amended: get_surface_depth never raises; it returns None when
\* site_path is None, when no multipatch log exists, when no log line has
\* 'surface_depth_changed', and, in AI_ExperimentLoader, when there is more
\* than one multipatch log; otherwise it returns the surface_depth of the last
\* such line, which in OptoExperimentLoader is the last such line of the last
\* log, in the order of the file names, that has one.
C10_SurfaceDepth ==
    ret.op = "get_surface_depth" =>
        /\ ret.exc = "none"
        /\ IF ChangedLogs = {} \/ (cls = "AI_ExperimentLoader" /\ Cardinality(DepthLogs) > 1)
           THEN ret.val = None
           ELSE ret.val = Some(fs_mplogs[Last(ChangedLogs)]
                                        [Last(ChangedLines(Last(ChangedLogs)))].surface_depth)

\* An OptoExperimentLoader has returned a depth from two logs of which only
\* the first has 'surface_depth_changed' lines, and has two of them.
C10_Witness ==
    /\ ret.op = "get_surface_depth"
    /\ cls = "OptoExperimentLoader"
    /\ Cardinality(DepthLogs) = 2
    /\ ChangedLogs = {1}
    /\ Cardinality(ChangedLines(1)) = 2
    /\ ret.val # None

\* C10, as written: otherwise get_surface_depth returns the surface_depth of
\* the last such line, in OptoExperimentLoader the last such line of the last
\* log in the order of the file names.
C10_AsWritten ==
    ret.op = "get_surface_depth" =>
        /\ ret.exc = "none"
        /\ IF ChangedLogs = {}
           THEN ret.val = None
           ELSE /\ ChangedLines(Last(DepthLogs)) # {}
                /\ ret.val = Some(fs_mplogs[Last(DepthLogs)]
                                           [Last(ChangedLines(Last(DepthLogs)))].surface_depth)

\* The NWB files get_ephys_file finds: those ending in '.nwb', or else those
\* ending in '.NWB'.
FoundNwb == IF nwb_glob("nwb") # {} THEN nwb_glob("nwb") ELSE nwb_glob("NWB")
MiesEntries ==
    IF IsNone(fs_manifest) THEN {}
    ELSE {i \in 1..Len(Val(fs_manifest)) : Val(fs_manifest)[i].category = "MIES physiology"}

\* C11: get_ephys_file returns None when site_path holds no NWB file and the
\* file when it holds exactly one; with several it returns the path of the
\* first manifest entry whose category is 'MIES physiology', and raises an
\* Exception (of whatever class, all of them derive from Exception) when the
\* manifest is missing or has no such entry.
C11_EphysFile ==
    (ret.op = "get_ephys_file" /\ site_path # NonePath) =>
        IF FoundNwb = {} THEN ret.exc = "none" /\ ret.val = None
        ELSE IF Cardinality(FoundNwb) = 1
        THEN ret.exc = "none" /\ ret.val = Some(CHOOSE f \in FoundNwb : TRUE)
        ELSE IF MiesEntries # {}
        THEN /\ ret.exc = "none"
             /\ ret.val = Some(Val(fs_manifest)[CHOOSE i \in MiesEntries :
                                                   \A j \in MiesEntries : i <= j].path)
        ELSE ret.exc # "none"

\* The points of the markPoints file and what it records of them: the square
\* of the distance between two points, in square micrometres, and whether
\* every headstage of the file has the same call on both.
FilePoints == 1..Len(fs_body.points)
SquaredDistance(i, j) ==
    LET dif(a) == fs_body.points[j].pos[a].v - fs_body.points[i].pos[a].v
    IN dif(1) * dif(1) + dif(2) * dif(2) + dif(3) * dif(3)
Near(i, j) == SquaredDistance(i, j) < 10 * 10
SameCalls(i, j) ==
    \A h \in 1..Len(fs_body.Headstages) :
        Get(fs_body.Headstages[h].v.Connections, fs_body.points[i].name)
            = Get(fs_body.Headstages[h].v.Connections, fs_body.points[j].name)
Duplicate(i) == \E j \in FilePoints : j > i /\ Near(i, j) /\ SameCalls(i, j)
\* The cells of what load returned that are stimulation-only cells of `name`.
StimOnlyCells(name) ==
    {i \in 1..Len(ret.val.cells) :
        /\ ret.val.cells[i].k = name
        /\ ~ret.val.cell_heap[ret.val.cells[i].v].has_readout
        /\ ret.val.cell_heap[ret.val.cells[i].v].has_stimulation
        /\ IsNone(ret.val.cell_heap[ret.val.cells[i].v].electrode)}
MarkPointsLoaded ==
    /\ ret.op = "load"
    /\ ret.exc = "none"
    /\ ret.val.route = "load_markPoints_connection_file"

\* C12: load_markPoints_connection_file drops a point exactly when a later
\* point of the file lies less than 10 micrometres from it in 3-D and has the
\* same call on every headstage; every other point becomes one
\* stimulation-only cell.
C12_Duplicates ==
    MarkPointsLoaded =>
        \A i \in FilePoints :
            Cardinality(StimOnlyCells(fs_body.points[i].name))
                = IF Duplicate(i) THEN 0 ELSE 1

\* Of three points the first was dropped for the second, and the second was
\* kept although the third is near it: their calls differ on one headstage.
C12_Witness ==
    /\ MarkPointsLoaded
    /\ Len(fs_body.points) = 3
    /\ Len(fs_body.Headstages) = 2
    /\ Duplicate(1)
    /\ Near(2, 3) /\ ~SameCalls(2, 3)
    /\ StimOnlyCells(fs_body.points[1].name) = {}
    /\ StimOnlyCells(fs_body.points[2].name) # {}
    /\ StimOnlyCells(fs_body.points[3].name) # {}

\* The integer device ids of the dataset of the one NWB file of the site.
NwbAvailable == site_path # NonePath /\ Cardinality(FoundNwb) = 1
NwbDeviceIds ==
    LET devs == SelectSeq(fs_nwb[CHOOSE f \in FoundNwb : TRUE].devices,
                          LAMBDA x : x.type = "int")
    IN [i \in 1..Len(devs) |-> devs[i].id]
\* The electrode `name` of what load returned is the electrode of a patched
\* cell that is one of the cells.
HasPatchedCell(name) ==
    \E i \in 1..Len(ret.val.electrodes) :
        /\ ret.val.electrodes[i].k = name
        /\ ret.val.elec_heap[ret.val.electrodes[i].v].electrode_id = name
        /\ \E j \in 1..Len(ret.val.cells) :
              /\ Some(ret.val.cells[j].v) = ret.val.elec_heap[ret.val.electrodes[i].v].cell
              /\ ret.val.cell_heap[ret.val.cells[j].v].has_readout
              /\ ret.val.cell_heap[ret.val.cells[j].v].electrode = Some(ret.val.electrodes[i].v)

\* C13: with an NWB file the electrodes load returns are 'electrode_<id>' for
\* the integer device ids of the dataset, whatever headstages the connections
\* file lists, each with a patched cell; without an NWB file they are the
\* Headstages keys of the connections file.
C13_ElectrodesFromRecording ==
    (ret.op = "load" /\ ret.exc = "none") =>
        /\ Keys(ret.val.electrodes) =
              IF NwbAvailable
              THEN [i \in 1..Len(NwbDeviceIds) |-> electrode \o <<"_">> \o str(NwbDeviceIds[i])]
              ELSE Keys(fs_body.Headstages)
        /\ \A i \in 1..Len(ret.val.electrodes) : HasPatchedCell(ret.val.electrodes[i].k)

\* load has returned the electrodes 0 and 1 of the recording from a
\* connections file that lists headstage 0 only.
C13_Witness ==
    /\ ret.op = "load"
    /\ ret.exc = "none"
    /\ cnx_file_ # NotFound
    /\ NwbAvailable
    /\ Len(fs_body.points) > 0
    /\ Keys(fs_body.Headstages) = <<electrode_name(0)>>
    /\ Keys(ret.val.electrodes) = <<electrode_name(0), electrode_name(1)>>
    /\ HasPatchedCell(electrode_name(1))

\* The cells load returned, and the ordered pairs of them that are to be
\* paired: distinct cells, the first stimulated and the second read out.
ReturnedCells == {ret.val.cells[i].v : i \in 1..Len(ret.val.cells)}
Pairable ==
    {pq \in ReturnedCells \X ReturnedCells :
        /\ pq[1] # pq[2]
        /\ ret.val.cell_heap[pq[1]].has_stimulation
        /\ ret.val.cell_heap[pq[2]].has_readout}

\* C14: create_pairs returns one Pair for every ordered pair of distinct
\* cells (pre, post) with pre.has_stimulation and post.has_readout, under the
\* key (pre.cell_id, post.cell_id), and nothing else.
C14_Pairs ==
    (ret.op = "load" /\ ret.exc = "none") =>
        /\ \A pq \in Pairable :
              \E i \in 1..Len(ret.val.pairs) :
                 /\ ret.val.pairs[i].v.preCell = pq[1]
                 /\ ret.val.pairs[i].v.postCell = pq[2]
        /\ \A i \in 1..Len(ret.val.pairs) :
              /\ <<ret.val.pairs[i].v.preCell, ret.val.pairs[i].v.postCell>> \in Pairable
              /\ ret.val.pairs[i].k = <<ret.val.cell_heap[ret.val.pairs[i].v.preCell].cell_id,
                                        ret.val.cell_heap[ret.val.pairs[i].v.postCell].cell_id>>
        /\ Len(ret.val.pairs) = Cardinality(Pairable)

\* load has returned two stimulation-only cells and two patched cells, and so
\* six pairs.
C14_Witness ==
    /\ ret.op = "load"
    /\ ret.exc = "none"
    /\ Cardinality({c \in ReturnedCells : ~ret.val.cell_heap[c].has_readout}) = 2
    /\ Cardinality({c \in ReturnedCells : ret.val.cell_heap[c].has_readout}) = 2
    /\ Len(ret.val.pairs) = 6

\* The calls the connections file records for the pair p of what load
\* returned: the entries Headstages[post cell's electrode id]['Connections']
\* [pre cell's stim_point_ext_id].
RecordedCalls(p) ==
    LET post == ret.val.cell_heap[p.postCell]
        pre == ret.val.cell_heap[p.preCell]
    IN {fs_body.Headstages[h].v.Connections[c].v :
          <<h, c>> \in {hc \in (1..Len(fs_body.Headstages)) \X (1..Len(fs_body.points)) :
              /\ hc[2] <= Len(fs_body.Headstages[hc[1]].v.Connections)
              /\ ~IsNone(post.electrode)
              /\ fs_body.Headstages[hc[1]].k
                    = ret.val.elec_heap[Val(post.electrode)].electrode_id
              /\ Some(fs_body.Headstages[hc[1]].v.Connections[hc[2]].k)
                    = pre.stim_point_ext_id}}

\* C15: with a connections file, a pair is probed, and has the recorded call
\* as its connection call, exactly when the file records a call of the post
\* cell's electrode on the pre cell's stimulation point; otherwise it is not
\* probed and has no connection call.  Without a connections file no pair is
\* given either.
C15_Probed ==
    (ret.op = "load" /\ ret.exc = "none") =>
        \A i \in 1..Len(ret.val.pairs) :
            LET p == ret.val.pairs[i].v IN
            IF cnx_file_ = NotFound
            THEN p.probed = None /\ p.connection_call = None
            ELSE IF RecordedCalls(p) # {}
            THEN p.probed = Some(TRUE) /\ p.connection_call \in {Some(c) : c \in RecordedCalls(p)}
            ELSE p.probed = Some(FALSE) /\ p.connection_call = None

\* load has returned a probed pair whose pre cell is a patched cell that a
\* stimulated point was merged into, and a pair that was not probed.
C15_Witness ==
    /\ ret.op = "load"
    /\ ret.exc = "none"
    /\ cnx_file_ # NotFound
    /\ \E i \in 1..Len(ret.val.pairs) :
          /\ ret.val.pairs[i].v.probed = Some(TRUE)
          /\ "/" \in Range(ret.val.pairs[i].k[1])
    /\ \E i \in 1..Len(ret.val.pairs) : ret.val.pairs[i].v.probed = Some(FALSE)

\* The patched cells process_meta_info was given: the cells of the electrodes.
GivenPatched ==
    {Val(ret.val.before.elec_heap[ret.val.before.electrodes[i].v].cell) :
        i \in 1..Len(ret.val.before.electrodes)}
\* pd is pia / (pia + wm)
IsPercentDepth(pd, pia, wm) ==
    LET e == Min(pia.e, wm.e)
        P == pia.v * Pow10(pia.e - e)
        W == wm.v * Pow10(wm.e - e)
    IN P + W # 0 /\ pd.num * (P + W) = pd.den * P

\* C16: process_meta_info changes the initial_call, target_layer,
\* distance_to_pia, distance_to_wm and percent_depth of a patched cell only
\* where they are None before the call, and percent_depth is then
\* distance_to_pia / (distance_to_pia + distance_to_wm), computed only when
\* both distances are known.
C16_NoOverwrite ==
    (ret.op = "process_meta_info" /\ ret.exc = "none") =>
        \A c \in GivenPatched :
            LET old == ret.val.before.cell_heap[c]
                new == ret.val.after.cell_heap[c]
            IN
            /\ \A f \in {"initial_call", "target_layer", "distance_to_pia",
                           "distance_to_wm", "percent_depth"} :
                  ~IsNone(old[f]) => new[f] = old[f]
            /\ IF IsNone(old.percent_depth) /\ ~IsNone(new.distance_to_pia)
                                            /\ ~IsNone(new.distance_to_wm)
               THEN /\ ~IsNone(new.percent_depth)
                    /\ IsPercentDepth(Val(new.percent_depth), Val(new.distance_to_pia),
                                      Val(new.distance_to_wm))
               ELSE new.percent_depth = old.percent_depth

\* process_meta_info has returned for a cell whose distance_to_pia came from
\* the connections file and whose meta_info measures both distances: the cell
\* has kept the one and taken the other, and has a percent_depth now.
C16_Witness ==
    /\ ret.op = "process_meta_info"
    /\ ret.exc = "none"
    /\ ~IsNone(ret.val.meta_info)
    /\ ~IsNone(Val(ret.val.meta_info).distances)
    /\ \E c \in GivenPatched :
          /\ ret.val.before.cell_heap[c].cell_id = electrode_name(1)
          /\ Val(Val(ret.val.meta_info).distances)[1] =
                Distance(<<"1">>, <<"3">>, <<"7">>, <<>>)
          /\ ret.val.before.cell_heap[c].distance_to_pia = Some(Number(5, -5))
          /\ ret.val.before.cell_heap[c].distance_to_wm = None
          /\ ret.val.before.cell_heap[c].target_layer = Some(<<"4">>)
          /\ ret.val.after.cell_heap[c].distance_to_pia = Some(Number(5, -5))
          /\ ret.val.after.cell_heap[c].distance_to_wm = Some(Number(7, -6))
          /\ ret.val.after.cell_heap[c].target_layer = Some(<<"4">>)
          /\ ~IsNone(ret.val.after.cell_heap[c].percent_depth)

\* The electrodes process_meta_info was given, and for the electrode e the
\* 'distances' entries of meta_info for its headstage, which is the last
\* character of the electrode's id.
GivenElectrodes == {ret.val.before.electrodes[i].v : i \in 1..Len(ret.val.before.electrodes)}
GivenDistances ==
    IF IsNone(ret.val.meta_info) \/ IsNone(Val(ret.val.meta_info).distances) THEN <<>>
    ELSE Val(Val(ret.val.meta_info).distances)
DistancesOf(e) ==
    SelectSeq(GivenDistances,
              LAMBDA d : d.headstage =
                    <<ret.val.before.elec_heap[e].electrode_id[
                          Len(ret.val.before.elec_heap[e].electrode_id)]>>)
\* The electrodes that are to be merged with a point, and the name of the point.
Merging == {e \in GivenElectrodes : Len(DistancesOf(e)) = 1 /\ DistancesOf(e)[1].photostim_as # <<>>}
MergedPoint(e) == Point_ \o strip(DistancesOf(e)[1].photostim_as)
\* The connections file has the point `name`, and a loading function makes
\* cells of such a point: every point of a markPoints file is stimulated on a
\* cell, a point of a mosaiceditor file says whether it is.
FileHasCellPoint(name) ==
    \E i \in 1..Len(fs_body.points) :
        /\ fs_body.points[i].name = name
        /\ route_of(cnx_file_) = "load_mosaiceditor_connection_file" => fs_body.points[i].onCell
\* No two of the electrodes given end in the same character, and no two are
\* to be merged with the same point.
DistinctHeadstages ==
    \A e, f \in GivenElectrodes :
        /\ DistancesOf(e) = DistancesOf(f) /\ DistancesOf(e) # <<>> => e = f
        /\ (e \in Merging /\ f \in Merging /\ MergedPoint(e) = MergedPoint(f)) => e = f

\* meta_info has the layer of every electrode given whose cell has none yet.
LayersKnown ==
    \A e \in GivenElectrodes :
        \/ ~IsNone(ret.val.before.cell_heap[Val(ret.val.before.elec_heap[e].cell)].target_layer)
        \/ \E i \in 1..Len(Val(ret.val.meta_info).HS) :
              /\ <<ret.val.before.elec_heap[e].electrode_id[
                       Len(ret.val.before.elec_heap[e].electrode_id)]>>
                    = Val(ret.val.meta_info).HS[i].k
              /\ ~IsNone(Val(ret.val.meta_info).HS[i].v.layer)

\* C17: when the one 'distances' entry of a headstage has photostim_as = N,
\* process_meta_info takes the cell 'Point N' and the patched cell's entry out
\* of cells and puts the patched cell back under 'Point N/<old id>', with
\* stim_point_ext_id 'Point N' and the point's position and depth data in
\* stim_point_info; cells has one cell less and electrodes is unchanged.  More
\* than one entry for a headstage raises an Exception.
C17_Merge ==
    (/\ ret.op = "process_meta_info"
     /\ ~IsNone(ret.val.meta_info)
     /\ cnx_file_ # NotFound
     /\ LayersKnown
     /\ DistinctHeadstages
     /\ \A e \in Merging : FileHasCellPoint(MergedPoint(e)))
        =>
        IF \E e \in GivenElectrodes : Len(DistancesOf(e)) > 1
        THEN ret.exc # "none"
        ELSE
        /\ ret.exc = "none"
        /\ ret.val.after.electrodes = ret.val.before.electrodes
        /\ Len(ret.val.after.cells) = Len(ret.val.before.cells) - Cardinality(Merging)
        /\ \A e \in Merging :
              LET c == Val(ret.val.before.elec_heap[e].cell)
                  old_id == ret.val.before.cell_heap[c].cell_id
                  name == MergedPoint(e)
              IN
              /\ ~Has(ret.val.after.cells, name)
              /\ ~Has(ret.val.after.cells, old_id)
              /\ Has(ret.val.after.cells, name \o <<"/">> \o old_id)
              /\ Get(ret.val.after.cells, name \o <<"/">> \o old_id) = c
              /\ ret.val.after.cell_heap[c].cell_id = name \o <<"/">> \o old_id
              /\ ret.val.after.cell_heap[c].stim_point_ext_id = Some(name)
              /\ Has(ret.val.before.cells, name)
              /\ \E ps \in {ret.val.before.cell_heap[Get(ret.val.before.cells, name)]} :
                    ret.val.after.cell_heap[c].stim_point_info =
                        Some([position |-> ps.position, target_layer |-> ps.target_layer,
                              percent_depth |-> ps.percent_depth,
                              distance_to_pia |-> ps.distance_to_pia,
                              distance_to_wm |-> ps.distance_to_wm])

\* C18: the duplicate check loses no stimulation site: every point of the
\* file that is dropped has a point that is kept as a cell, lies less than 10
\* micrometres from it and has the same call on every headstage; the last
\* point of the file is always kept.
C18_NoSiteLost ==
    MarkPointsLoaded =>
        /\ \A i \in FilePoints :
              StimOnlyCells(fs_body.points[i].name) = {} =>
                  \E j \in FilePoints :
                      /\ StimOnlyCells(fs_body.points[j].name) # {}
                      /\ Near(i, j) \/ Near(j, i)
                      /\ SameCalls(i, j)
        /\ Len(fs_body.points) > 0 =>
              StimOnlyCells(fs_body.points[Len(fs_body.points)].name) # {}

DeviceNumber(name) == SubSeq(name, Len(electrode) + 2, Len(name))
LoadedElectrodes == {ret.val.electrodes[i].v : i \in 1..Len(ret.val.electrodes)}

\* C20: every electrode that load creates has the device_id of the device it
\* is named after, distinct electrodes have distinct device_ids, and
\* process_meta_info describes the cell of an electrode from the HS<n> keys of
\* the electrode's own device number n, of one digit or more: a cell gets an
\* initial_call only when meta_info has the keys of its own device.
C20_DeviceIds ==
    (ret.op = "load" /\ ret.exc = "none") =>
        /\ \A e \in LoadedElectrodes :
              ret.val.elec_heap[e].device_id = DeviceNumber(ret.val.elec_heap[e].electrode_id)
        /\ \A e1 \in LoadedElectrodes, e2 \in LoadedElectrodes :
              e1 # e2 => ret.val.elec_heap[e1].device_id # ret.val.elec_heap[e2].device_id
        /\ ~IsNone(meta_info_) =>
              \A e \in LoadedElectrodes :
                  ~IsNone(ret.val.cell_heap[Val(ret.val.elec_heap[e].cell)].initial_call)
                      => Has(Val(meta_info_).HS, DeviceNumber(ret.val.elec_heap[e].electrode_id))

\* The external id of the experiment, from the connections file the loader
\* has settled on.
ExtId ==
    IF cnx_file_ # NotFound THEN partition_head(file_name(cnx_file_), _connections)
    ELSE partition_head(experiment(Val(meta_info_)), _connections)
OperatorGiven == site_path # NonePath /\ ~IsNone(fs_rig_operator)

\* C21: OptoExperimentLoader.get_rig_operator returns the 'rig_operator' of
\* the experiment info whenever there is one, and otherwise the last
\* '_'-separated token of get_ext_id().
C21_RigOperator ==
    (ret.op = "get_rig_operator" /\ cls = "OptoExperimentLoader") =>
        IF OperatorGiven
        THEN ret.exc = "none" /\ ret.val = fs_rig_operator
        ELSE ret.exc = "none" => ret.val = Some(split_last(ExtId, "_"))
====
